---- MODULE Spec2Model ----
(***************************************************************************)
(* Verification model of the stock-predictor analysis pipeline.            *)
(*                                                                         *)
(* Part 1: AnalysisService (backend/app/services/analysis_service.py),     *)
(* the persistence store it writes through one SQLAlchemy session, the     *)
(* Redis response cache (backend/app/cache.py) and the API readers of      *)
(* backend/app/api/stocks.py that fill that cache.                         *)
(***************************************************************************)
EXTENDS Integers, Sequences, FiniteSets, TLC

(***************************************************************************)
(* Bounds of the model.                                                    *)
(***************************************************************************)
MaxStocks == 2
MaxEvents == 2
MaxDay == 2
MaxCalls == 1

VARIABLES
    events,     \* news_events rows (committed): event id -> row
    corr,       \* event_price_correlations rows (committed): set of rows
    scores,     \* predictability_scores rows (committed): sequence, index = id
    cache,      \* Redis: cache key -> cached response or Nil
    pending,    \* unit of work of the service's Session, not yet committed
    today,      \* calendar day of datetime.utcnow()
    calls,      \* number of service entry points called so far
    queue,      \* stock ids batch_analyze_stocks still has to analyze
    results,    \* result dict of the current call: stock id -> result or Nil
    run,        \* activation record of the running analyze_stock / recalculate_*
    reader,     \* activation record of one API request
    call,       \* last call of an analysis engine: function, arguments, result
    limiter,    \* the RateLimiter object: enabled, redis_client, memory_store
    clock       \* time.time(), in seconds

vars == <<events, corr, scores, cache, pending, today, calls, queue, results, run, reader, call,
          limiter, clock>>

Nil == "nil"

\* An event id with no row yet, a result dict not yet returned, a score not
\* computed, an absent cache entry.
NoEvent == [event_category |-> Nil, sentiment |-> Nil]
NoScoreData == [sample_size |-> 0 - 1, analysed |-> 0 - 1, categories |-> {}]
NoResult == [status |-> Nil, completed |-> FALSE]
NoResponse == [built_from |-> Nil, data |-> NoScoreData]

\* The placeholder response of the endpoints for a stock with no score row.
DefaultResponse == [built_from |-> "default", data |-> NoScoreData]

\* No analysis engine has been called yet.
NoCall == [fn |-> "none", arg |-> <<>>, out |-> <<>>]

Stocks == 1..MaxStocks
Events == 1..MaxEvents
Days == 1..MaxDay

\* The category table of EventCategorizer, in declaration order.
Categories ==
    <<"earnings", "policy", "seasonal", "technical", "sector", "merger", "dividend", "management">>

NumCategories == 8

\* The category the news fetcher stores on a freshly ingested event.
IngestCategory == "news"

\* Test data: the security each event belongs to, and what the two text
\* analyzers return for the event's headline and content.
StockOf(e) == ((e - 1) % MaxStocks) + 1
HeadlineCategory(e) == Categories[((e - 1) % NumCategories) + 1]
HeadlineSentiment(e) == IF e % 2 = 1 THEN "POSITIVE" ELSE "NEGATIVE"

EventsOf(s) == {e \in Events : StockOf(e) = s}

(***************************************************************************)
(* The Session: reads see the committed rows overlaid with the pending     *)
(* unit of work of the same session; commit writes the whole unit of work, *)
(* rollback discards it.                                                   *)
(***************************************************************************)
NoPending == [ev |-> <<>>, corr |-> {}, score |-> {}]

\* news_events as the session sees them.
ViewEvents ==
    [e \in Events |-> IF e \in DOMAIN pending.ev THEN pending.ev[e] ELSE events[e]]

\* Upsert of correlation rows: a row replaces the row with the same key.
UpsertCorr(rows, new) ==
    {r \in rows : ~\E n \in new : n.stock_id = r.stock_id /\ n.event_category = r.event_category}
        \cup new

\* event_price_correlations as the session sees them.
ViewCorr == UpsertCorr(corr, pending.corr)

RECURSIVE ApplyScoreWrites(_, _)
\* Pending writes of predictability rows: id 0 is an INSERT, another id an UPDATE.
ApplyScoreWrites(rows, writes) ==
    IF writes = {} THEN rows
    ELSE LET w == CHOOSE x \in writes : TRUE
             rest == writes \ {w}
         IN IF w.id = 0
            THEN ApplyScoreWrites(Append(rows, w.row), rest)
            ELSE ApplyScoreWrites([rows EXCEPT ![w.id] = w.row], rest)

\* db.commit(): the whole unit of work of the session becomes persistent.
CommittedEvents == ViewEvents
CommittedCorr == ViewCorr
CommittedScores == ApplyScoreWrites(scores, pending.score)

\* Variant: the except branch of _analyze_events without its db.rollback().
RollbackEventsMissing(p) == p

\* db.rollback() in the except branch of a failed commit.
RollbackEvents(p) == NoPending
RollbackCorr(p) == NoPending
RollbackScore(p) == NoPending

(***************************************************************************)
(* Cache keys (cache_key_predictability, cache_key_prediction).            *)
(***************************************************************************)
KeyKinds == {"predictability", "prediction"}
CacheKeys == KeyKinds \X Stocks
KeysOfStock(s) == {<<k, s>> : k \in KeyKinds}

(***************************************************************************)
(* analyze_stock: activation record.                                       *)
(***************************************************************************)
Idle ==
    [pc |-> "idle", entry |-> "none", stock |-> 0, ue |-> FALSE, uc |-> FALSE, up |-> FALSE,
     status |-> "SUCCESS", completed |-> FALSE, events_analyzed |-> 0,
     correlations |-> {}, predictability |-> NoScoreData, trace |-> <<>>, deleted |-> {},
     requested |-> <<>>]

\* The locals of analyze_stock right after `results = {...}`.
NewRun(entry, s, ue, uc, up) ==
    [Idle EXCEPT !.entry = entry, !.stock = s, !.ue = ue, !.uc = uc, !.up = up]

\* The order of the `if update_*` blocks of analyze_stock.
StageAfterStart(r) ==
    IF r.ue THEN "events"
    ELSE IF r.uc THEN "correlations"
    ELSE IF r.up THEN "predictability"
    ELSE "finish"

StageAfterEvents(r) ==
    IF r.uc THEN "correlations"
    ELSE IF r.up THEN "predictability"
    ELSE "finish"

StageAfterCorrelations(r) ==
    IF r.up THEN "predictability" ELSE "finish"

\* `results['status'] = ...` in the except branches of analyze_stock; the
\* recalculate_* entry points have no results dict, the exception goes to
\* their caller.
StatusOnEventsRaise(r) == "FAILED"
\* Variant: the except branch of the correlation stage leaves the status alone.
StatusOnCorrelationsRaiseKept(r) == r.status

StatusOnCorrelationsRaise(r) == IF r.entry = "recalc" THEN r.status ELSE "PARTIAL"
StatusOnPredictabilityRaise(r) == IF r.entry = "recalc" THEN r.status ELSE "PARTIAL"

\* What a stage's own `except: db.rollback()` leaves of the status.
StatusOnCommitFailure(r) == r.status

Start(r) == [r EXCEPT !.pc = StageAfterStart(r)]

\* RateLimiter.__init__ with RATE_LIMITING_ENABLED false (the default) or with
\* Redis unreachable: no Redis client, an empty in-memory store (a function
\* with an empty domain is the empty dict).
NewRateLimiter(enabled) ==
    [enabled |-> enabled, redis_client |-> Nil, memory_store |-> <<>>]

\* An empty store; the cache holds the placeholder responses the endpoints
\* built when each key was requested before any analysis.
Init ==
    /\ events = [e \in Events |-> NoEvent]
    /\ corr = {}
    /\ scores = <<>>
    /\ cache = [k \in CacheKeys |-> DefaultResponse]
    /\ pending = NoPending
    /\ today = 1
    /\ calls = 0
    /\ queue = <<>>
    /\ results = [s \in Stocks |-> NoResult]
    /\ run = Idle
    /\ reader = [pc |-> "idle", key |-> <<"predictability", 1>>, val |-> NoResponse,
                 hit |-> FALSE, fresh |-> TRUE, invalidated |-> FALSE]
    /\ call = NoCall
    /\ limiter = NewRateLimiter(FALSE)
    /\ clock = 0

(***************************************************************************)
(* External collaborators.                                                 *)
(***************************************************************************)
\* save_to_database of the news fetcher: the new event rows of a stock, stored with the
\* default category and committed together.
IngestNews(s) ==
    /\ \E e \in EventsOf(s) : events[e] = NoEvent
    /\ events' = [e \in Events |->
                    IF e \in EventsOf(s) /\ events[e] = NoEvent
                    THEN [event_category |-> IngestCategory, sentiment |-> Nil]
                    ELSE events[e]]
    /\ UNCHANGED <<corr, scores, cache, pending, today, calls, queue, results, run, reader, call, limiter, clock>>

\* The calendar day of datetime.utcnow() advances.
Tick ==
    /\ today < MaxDay
    /\ today' = today + 1
    /\ UNCHANGED <<events, corr, scores, cache, pending, calls, queue, results, run, reader, call, limiter, clock>>

(***************************************************************************)
(* Entry points of AnalysisService.                                        *)
(***************************************************************************)
BatchLists == UNION {[1..n -> Stocks] : n \in 1..MaxStocks}

\* batch_analyze_stocks(db, stock_ids): analyze_stock with its default flags
\* for each id in turn.
CallBatchAnalyzeStocks(ids) ==
    /\ run.pc = "idle"
    /\ calls < MaxCalls
    /\ calls' = calls + 1
    /\ queue' = Tail(ids)
    /\ results' = [s \in Stocks |-> NoResult]
    /\ run' = [Start(NewRun("batch", Head(ids), TRUE, TRUE, TRUE)) EXCEPT !.requested = ids]
    /\ UNCHANGED <<events, corr, scores, cache, pending, today, reader, call, limiter, clock>>

\* analyze_stock(db, stock_id, update_events, update_correlations, update_predictability)
CallAnalyzeStock(s, ue, uc, up) ==
    /\ run.pc = "idle"
    /\ calls < MaxCalls
    /\ calls' = calls + 1
    /\ queue' = <<>>
    /\ results' = [x \in Stocks |-> NoResult]
    /\ run' = Start(NewRun("analyze", s, ue, uc, up))
    /\ UNCHANGED <<events, corr, scores, cache, pending, today, reader, call, limiter, clock>>

\* recalculate_predictability(db, stock_id)
CallRecalculatePredictability(s) ==
    /\ run.pc = "idle"
    /\ calls < MaxCalls
    /\ calls' = calls + 1
    /\ queue' = <<>>
    /\ results' = [x \in Stocks |-> NoResult]
    /\ run' = [NewRun("recalc", s, FALSE, FALSE, TRUE) EXCEPT !.pc = "predictability"]
    /\ UNCHANGED <<events, corr, scores, cache, pending, today, reader, call, limiter, clock>>

\* recalculate_correlations(db, stock_id)
CallRecalculateCorrelations(s) ==
    /\ run.pc = "idle"
    /\ calls < MaxCalls
    /\ calls' = calls + 1
    /\ queue' = <<>>
    /\ results' = [x \in Stocks |-> NoResult]
    /\ run' = [NewRun("recalc", s, FALSE, TRUE, FALSE) EXCEPT !.pc = "correlations"]
    /\ UNCHANGED <<events, corr, scores, cache, pending, today, reader, call, limiter, clock>>

(***************************************************************************)
(* Stage 1: _analyze_events.                                               *)
(***************************************************************************)
\* Variant: the query without its stock_id filter.
StockEventsUnfiltered(s) == {e \in Events : ViewEvents[e] # NoEvent}

\* The rows of the security the event queries return.
StockEvents(s) == {e \in EventsOf(s) : ViewEvents[e] # NoEvent}

\* The row of an event after categorize_event and analyze.
Analyzed(e) == [event_category |-> HeadlineCategory(e), sentiment |-> HeadlineSentiment(e)]

\* Query, the loop over the events (an event whose analysis raises is
\* skipped), db.add of each analyzed event.
AnalyzeEvents ==
    /\ run.pc = "events"
    /\ \E queryOk \in BOOLEAN :
         IF ~queryOk
         THEN /\ run' = [run EXCEPT !.pc = "failed",
                                    !.status = StatusOnEventsRaise(run),
                                    !.trace = Append(@, "events_raised")]
              /\ UNCHANGED pending
         ELSE \E done \in SUBSET StockEvents(run.stock) :
                /\ pending' = [pending EXCEPT !.ev = [e \in done |-> Analyzed(e)]]
                /\ run' = [run EXCEPT !.pc = "events_commit",
                                      !.events_analyzed = Cardinality(done),
                                      !.trace = Append(@, "events_read")]
    /\ UNCHANGED <<events, corr, scores, cache, today, calls, queue, results, reader, call, limiter, clock>>

\* `try: db.commit() except: db.rollback()` of _analyze_events, then the return.
CommitEvents ==
    /\ run.pc = "events_commit"
    /\ \E ok \in BOOLEAN :
         IF ok
         THEN /\ events' = CommittedEvents
              /\ corr' = CommittedCorr
              /\ scores' = CommittedScores
              /\ pending' = NoPending
              /\ run' = [run EXCEPT !.pc = StageAfterEvents(run),
                                    !.trace = Append(@, "events_commit")]
         ELSE /\ pending' = RollbackEvents(pending)
              /\ run' = [run EXCEPT !.pc = StageAfterEvents(run),
                                    !.status = StatusOnCommitFailure(run),
                                    !.trace = Append(@, "events_commit_failed")]
              /\ UNCHANGED <<events, corr, scores>>
    /\ UNCHANGED <<cache, today, calls, queue, results, reader, call, limiter, clock>>

(***************************************************************************)
(* Stage 2: _calculate_correlations.                                       *)
(***************************************************************************)
\* The distinct, non-empty categories of the security's events.
CategoryList(s) == {ViewEvents[e].event_category : e \in StockEvents(s)}

\* find_correlations(db, stock_id, event_category) computes its statistics from
\* the events of the security that carry the category: the row keeps which.
FindCorrelations(s, c) ==
    [stock_id |-> s, event_category |-> c,
     sample |-> {e \in StockEvents(s) : ViewEvents[e].event_category = c}]

\* batch_analyze_categories: one result per category of the list.
BatchAnalyzeCategories(s, cats) == {FindCorrelations(s, c) : c \in cats}

\* The store loop: update the existing row of (stock, category) or create one;
\* a category whose store raises is skipped. Nothing else is touched.
StoreCorrelations(computed, raised) == {r \in computed : r.event_category \notin raised}

\* Queries, analysis and the store loop, up to the commit.
CalculateCorrelations ==
    /\ run.pc = "correlations"
    /\ \E queryOk \in BOOLEAN :
         IF ~queryOk
         THEN /\ run' = [run EXCEPT !.pc = StageAfterCorrelations(run),
                                    !.status = StatusOnCorrelationsRaise(run),
                                    !.trace = Append(@, "correlations_raised")]
              /\ UNCHANGED pending
         ELSE IF CategoryList(run.stock) = {}
         THEN /\ run' = [run EXCEPT !.pc = StageAfterCorrelations(run),
                                    !.trace = Append(@, "correlations_none")]
              /\ UNCHANGED pending
         ELSE \E raised \in SUBSET CategoryList(run.stock) :
                LET computed == BatchAnalyzeCategories(run.stock, CategoryList(run.stock))
                IN /\ pending' = [pending EXCEPT !.corr = StoreCorrelations(computed, raised)]
                   /\ run' = [run EXCEPT !.pc = "correlations_commit",
                                         !.correlations = computed,
                                         !.trace = Append(@, IF raised = {}
                                                             THEN "correlations_write"
                                                             ELSE "correlations_write_partial")]
    /\ UNCHANGED <<events, corr, scores, cache, today, calls, queue, results, reader, call, limiter, clock>>

\* `try: db.commit() except: db.rollback()` of _calculate_correlations, then the return.
CommitCorrelations ==
    /\ run.pc = "correlations_commit"
    /\ \E ok \in BOOLEAN :
         IF ok
         THEN /\ events' = CommittedEvents
              /\ corr' = CommittedCorr
              /\ scores' = CommittedScores
              /\ pending' = NoPending
              /\ run' = [run EXCEPT !.pc = StageAfterCorrelations(run),
                                    !.trace = Append(@, "correlations_commit")]
         ELSE /\ pending' = RollbackCorr(pending)
              /\ run' = [run EXCEPT !.pc = StageAfterCorrelations(run),
                                    !.status = StatusOnCommitFailure(run),
                                    !.trace = Append(@, "correlations_commit_failed")]
              /\ UNCHANGED <<events, corr, scores>>
    /\ UNCHANGED <<cache, today, calls, queue, results, reader, call, limiter, clock>>

\* regenerate_correlations_task: deletes the correlation rows of every stock and
\* commits; the regeneration itself is a placeholder.
RegenerateCorrelationsTask ==
    /\ run.pc = "idle"
    /\ corr # {}
    /\ corr' = {}
    /\ UNCHANGED <<events, scores, cache, pending, today, calls, queue, results, run, reader, call, limiter, clock>>

(***************************************************************************)
(* Stage 3: _calculate_predictability.                                     *)
(***************************************************************************)
\* predictability_scores as the session sees them.
ViewScores == ApplyScoreWrites(scores, pending.score)

\* score_stock(db, stock_id): what it computes from is the events of the
\* security (their sentiment) and the correlation rows of the security.
ScoreStock(s) ==
    [sample_size |-> Cardinality(StockEvents(s)),
     analysed |-> Cardinality({e \in StockEvents(s) : ViewEvents[e].sentiment # Nil}),
     categories |-> {r.event_category : r \in {x \in ViewCorr : x.stock_id = s}}]

\* The rows `calculated_at >= today 00:00` of the security.
ExistingToday(s, day) ==
    {i \in DOMAIN ViewScores : ViewScores[i].stock_id = s /\ ViewScores[i].day >= day}

\* A row created by the stage.
NewScoreRow(s, data, day) ==
    [stock_id |-> s, data |-> data, day |-> day, is_current |-> TRUE]

\* An existing row updated by the stage.
UpdatedScoreRow(row, data, day) == [row EXCEPT !.data = data, !.day = day]

\* The upsert: `.first()` of the existing rows, updated, or else a new row.
\* queried is the day of the query, written the day of calculated_at.
ScoreWrites(s, data, queried, written) ==
    IF ExistingToday(s, queried) # {}
    THEN {[id |-> i, row |-> UpdatedScoreRow(ViewScores[i], data, written)] :
            i \in ExistingToday(s, queried)}
    ELSE {[id |-> 0, row |-> NewScoreRow(s, data, written)]}

\* score_stock, the query of today's row and db.add, up to the commit.
CalculatePredictability ==
    /\ run.pc = "predictability"
    /\ \E scoreOk \in BOOLEAN, queryOk \in BOOLEAN, written \in {today, today + 1} \cap Days :
         IF ~scoreOk
         THEN /\ run' = [run EXCEPT !.pc = "finish",
                                    !.status = StatusOnPredictabilityRaise(run),
                                    !.trace = Append(@, "score_raised")]
              /\ UNCHANGED <<pending, today>>
         ELSE IF ~queryOk
         THEN /\ pending' = RollbackScore(pending)
              /\ run' = [run EXCEPT !.pc = "finish",
                                    !.status = StatusOnCommitFailure(run),
                                    !.predictability = ScoreStock(run.stock),
                                    !.trace = Append(Append(@, "score_read"),
                                                     "predictability_query_failed")]
              /\ UNCHANGED today
         ELSE \E w \in ScoreWrites(run.stock, ScoreStock(run.stock), today, written) :
                /\ pending' = [pending EXCEPT !.score = {w}]
                /\ today' = written
                /\ run' = [run EXCEPT !.pc = "predictability_commit",
                                      !.predictability = ScoreStock(run.stock),
                                      !.trace = Append(Append(@, "score_read"),
                                                       "predictability_write")]
    /\ UNCHANGED <<events, corr, scores, cache, calls, queue, results, reader, call, limiter, clock>>

\* Variant: the invalidation also runs when the commit raised.
AfterPredictabilityCommitAlways(ok) == "invalidate"

\* Where _calculate_predictability goes after db.commit(): on to the cache
\* invalidation, or into the except branch (rollback, return).
AfterPredictabilityCommit(ok) == IF ok THEN "invalidate" ELSE "finish"

\* db.commit() of _calculate_predictability.
CommitPredictability ==
    /\ run.pc = "predictability_commit"
    /\ \E ok \in BOOLEAN :
         IF ok
         THEN /\ events' = CommittedEvents
              /\ corr' = CommittedCorr
              /\ scores' = CommittedScores
              /\ pending' = NoPending
              /\ run' = [run EXCEPT !.pc = AfterPredictabilityCommit(ok),
                                    !.trace = Append(@, "predictability_commit")]
         ELSE /\ pending' = RollbackScore(pending)
              /\ run' = [run EXCEPT !.pc = AfterPredictabilityCommit(ok),
                                    !.status = StatusOnCommitFailure(run),
                                    !.trace = Append(@, "predictability_commit_failed")]
              /\ UNCHANGED <<events, corr, scores>>
    /\ UNCHANGED <<cache, today, calls, queue, results, reader, call, limiter, clock>>

\* The keys _invalidate_predictability_cache deletes for a stock.
InvalidatedKeys(s) == KeysOfStock(s)

\* _invalidate_predictability_cache: the stock lookup, then cache.delete of both
\* keys; a failing lookup or a failing delete is logged and swallowed.
InvalidateCache ==
    /\ run.pc = "invalidate"
    /\ \E lookupOk \in BOOLEAN, gone \in SUBSET InvalidatedKeys(run.stock) :
         LET del == IF lookupOk THEN gone ELSE {}
         IN /\ cache' = [k \in CacheKeys |-> IF k \in del THEN NoResponse ELSE cache[k]]
            /\ run' = [run EXCEPT !.pc = "finish",
                                  !.deleted = del,
                                  !.trace = Append(@, "invalidate")]
    /\ UNCHANGED <<events, corr, scores, pending, today, calls, queue, results, reader, call, limiter, clock>>

(***************************************************************************)
(* The API readers: get_predictability_score and get_price_prediction.     *)
(***************************************************************************)
\* The rows of the security the endpoint's query selects.
ReadableScores(k) ==
    {i \in DOMAIN scores :
        /\ scores[i].stock_id = k[2]
        /\ (k[1] = "prediction" => scores[i].is_current)}

\* order_by(calculated_at.desc()).first()
LatestScore(k) ==
    CHOOSE i \in ReadableScores(k) : \A j \in ReadableScores(k) : scores[j].day <= scores[i].day

\* The response the endpoint builds from the store.
ResponseFor(k) ==
    IF ReadableScores(k) = {}
    THEN DefaultResponse
    ELSE [built_from |-> "score", data |-> scores[LatestScore(k)].data]

\* cache.get(cache_key): a hit is returned as the response.
ReaderLookup(k) ==
    /\ reader.pc = "idle"
    /\ \E getOk \in BOOLEAN :
         IF getOk /\ cache[k] # NoResponse
         THEN reader' = [pc |-> "idle", key |-> k, val |-> cache[k], hit |-> TRUE,
                         fresh |-> (cache[k] = ResponseFor(k)),
                         invalidated |-> (run.pc = "idle" /\ k \in run.deleted)]
         ELSE reader' = [pc |-> "read", key |-> k, val |-> NoResponse, hit |-> FALSE,
                         fresh |-> TRUE, invalidated |-> FALSE]
    /\ UNCHANGED <<events, corr, scores, cache, pending, today, calls, queue, results, run, call, limiter, clock>>

\* The queries of the endpoint; a failing query ends the request with a 500.
ReaderRead ==
    /\ reader.pc = "read"
    /\ \E ok \in BOOLEAN :
         reader' = IF ok THEN [reader EXCEPT !.pc = "set", !.val = ResponseFor(reader.key)]
                   ELSE [reader EXCEPT !.pc = "idle"]
    /\ UNCHANGED <<events, corr, scores, cache, pending, today, calls, queue, results, run, call, limiter, clock>>

\* cache.set(cache_key, response, ttl); a failing set is logged and swallowed.
ReaderSet ==
    /\ reader.pc = "set"
    /\ \E ok \in BOOLEAN :
         cache' = IF ok THEN [cache EXCEPT ![reader.key] = reader.val] ELSE cache
    /\ reader' = [reader EXCEPT !.pc = "idle"]
    /\ UNCHANGED <<events, corr, scores, pending, today, calls, queue, results, run, call, limiter, clock>>

\* Redis drops an entry when its TTL has passed.
Expire(k) ==
    /\ cache[k] # NoResponse
    /\ cache' = [cache EXCEPT ![k] = NoResponse]
    /\ UNCHANGED <<events, corr, scores, pending, today, calls, queue, results, run, reader, call, limiter, clock>>

(***************************************************************************)
(* Return of analyze_stock, and the loop of batch_analyze_stocks.          *)
(***************************************************************************)
\* What the caller keeps of the dict analyze_stock returns: its status and
\* whether completed_at is set.
ResultOf(r) == [status |-> r.status, completed |-> r.completed]

\* Variant: the batch loop stops at the first FAILED result.
BatchStopsOnFailure(r) == r.status # "FAILED"

\* What batch_analyze_stocks does with the result of one security: it stores
\* it and goes on with the next id, whatever the status.
BatchContinues(r) == TRUE

\* `results['completed_at'] = ...` unless the outer except was taken, the
\* return, and the next iteration of the batch loop.
Return ==
    /\ run.pc \in {"finish", "failed"}
    /\ LET r == [run EXCEPT !.completed = (run.pc = "finish")]
       IN /\ results' = IF r.entry = "recalc" THEN results
                        ELSE [results EXCEPT ![r.stock] = ResultOf(r)]
          /\ IF queue # <<>> /\ BatchContinues(r)
             THEN /\ run' = [Start(NewRun("batch", Head(queue), TRUE, TRUE, TRUE))
                                EXCEPT !.requested = r.requested]
                  /\ queue' = Tail(queue)
             ELSE /\ run' = [r EXCEPT !.pc = "idle"]
                  /\ queue' = <<>>
    /\ UNCHANGED <<events, corr, scores, cache, pending, today, calls, reader, call, limiter, clock>>

Next ==
    \/ \E s \in Stocks : IngestNews(s)
    \/ Tick
    \/ \E ids \in BatchLists : CallBatchAnalyzeStocks(ids)
    \/ \E s \in Stocks, ue, uc, up \in BOOLEAN : CallAnalyzeStock(s, ue, uc, up)
    \/ \E s \in Stocks : CallRecalculatePredictability(s)
    \/ \E s \in Stocks : CallRecalculateCorrelations(s)
    \/ AnalyzeEvents
    \/ CommitEvents
    \/ CalculateCorrelations
    \/ CommitCorrelations
    \/ RegenerateCorrelationsTask
    \/ CalculatePredictability
    \/ CommitPredictability
    \/ InvalidateCache
    \/ Return

Spec == Init /\ [][Next]_vars

(***************************************************************************)
(* The service concurrent with one API request at a time and the cache's   *)
(* expiry: the steps of recalculate_predictability interleave with the     *)
(* request's lookup, read and set.                                         *)
(***************************************************************************)
NextCache ==
    \/ \E s \in Stocks : IngestNews(s)
    \/ \E s \in Stocks : CallRecalculatePredictability(s)
    \/ CalculatePredictability
    \/ CommitPredictability
    \/ InvalidateCache
    \/ Return
    \/ \E k \in CacheKeys : ReaderLookup(k)
    \/ ReaderRead
    \/ ReaderSet
    \/ \E k \in CacheKeys : Expire(k)

\* The store after recalculate_predictability has run once for every stock,
\* before any news was ingested; nothing is cached.
InitCache ==
    /\ events = [e \in Events |-> NoEvent]
    /\ corr = {}
    /\ scores = [s \in Stocks |->
                    NewScoreRow(s, [sample_size |-> 0, analysed |-> 0, categories |-> {}], 1)]
    /\ cache = [k \in CacheKeys |-> NoResponse]
    /\ pending = NoPending
    /\ today = 1
    /\ calls = 0
    /\ queue = <<>>
    /\ results = [s \in Stocks |-> NoResult]
    /\ run = Idle
    /\ reader = [pc |-> "idle", key |-> <<"predictability", 1>>, val |-> NoResponse,
                 hit |-> FALSE, fresh |-> TRUE, invalidated |-> FALSE]
    /\ call = NoCall
    /\ limiter = NewRateLimiter(FALSE)
    /\ clock = 0

SpecCache == InitCache /\ [][NextCache]_vars

(***************************************************************************)
(* Properties of the orchestrator.                                         *)
(***************************************************************************)
Has(tr, x) == \E i \in DOMAIN tr : tr[i] = x
Range(f) == {f[i] : i \in DOMAIN f}

\* The activation is one of analyze_stock (directly or from the batch loop).
AnalyzeRun == run.entry \in {"analyze", "batch"}

EventsMarkers == {"events_raised", "events_read", "events_commit", "events_commit_failed"}
CorrelationsMarkers ==
    {"correlations_raised", "correlations_none", "correlations_write",
     "correlations_write_partial", "correlations_commit", "correlations_commit_failed"}
PredictabilityMarkers ==
    {"score_raised", "score_read", "predictability_query_failed", "predictability_write",
     "predictability_commit", "predictability_commit_failed", "invalidate"}
CommitFailedMarkers ==
    {"events_commit_failed", "correlations_commit_failed", "predictability_commit_failed"}
RaisedMarkers == {"events_raised", "correlations_raised", "score_raised"}

StageRank(m) ==
    IF m \in EventsMarkers THEN 1 ELSE IF m \in CorrelationsMarkers THEN 2 ELSE 3

\* The rows of one security.
EventRows(s) == [e \in EventsOf(s) |-> events[e]]
CorrRows(s) == {r \in corr : r.stock_id = s}
ScoreIds(s) == {i \in DOMAIN scores : scores[i].stock_id = s}
ScoreRows(s) == {<<i, scores[i]>> : i \in ScoreIds(s)}
CacheRows(s) == [k \in KeysOfStock(s) |-> cache[k]]

\* C1: in every run of analyze_stock or recalculate_predictability the cache
\* keys of the security are deleted only right after the commit of the
\* predictability row succeeded in that run; a run whose commit (or whose
\* query, or whose scorer) raised deletes no key, and an entry that was
\* cached leaves the cache in a step of a run only after that commit.
C1_DeletedState ==
    /\ run.deleted # {} => Has(run.trace, "predictability_commit")
    /\ \A i \in DOMAIN run.trace :
         run.trace[i] = "invalidate" => i > 1 /\ run.trace[i - 1] = "predictability_commit"
    /\ (\/ Has(run.trace, "predictability_commit_failed")
        \/ Has(run.trace, "predictability_query_failed")
        \/ Has(run.trace, "score_raised")) => run.deleted = {}

C1_DeleteStep ==
    \A k \in CacheKeys :
        (cache[k] # NoResponse /\ cache'[k] = NoResponse) =>
            /\ run.trace # <<>>
            /\ run.trace[Len(run.trace)] = "predictability_commit"
            /\ k \in KeysOfStock(run.stock)

C1_InvalidateAfterCommit == [](C1_DeletedState) /\ [][C1_DeleteStep]_vars

C1_Witness ==
    /\ run.deleted = KeysOfStock(run.stock)
    /\ Has(run.trace, "predictability_commit")
    /\ \A k \in KeysOfStock(run.stock) : cache[k] = NoResponse
    /\ \E k \in CacheKeys : cache[k] = DefaultResponse

\* C2 (as claimed): when the commit of a stage of analyze_stock fails, the
\* status returned is PARTIAL and the stages after it are still executed.
C2_CommitFailureIsPartial ==
    (AnalyzeRun /\ run.pc = "finish") =>
        /\ (\E i \in DOMAIN run.trace : run.trace[i] \in CommitFailedMarkers) =>
              run.status = "PARTIAL"
        /\ (Has(run.trace, "events_commit_failed") /\ run.uc) =>
              \E i \in DOMAIN run.trace : run.trace[i] \in CorrelationsMarkers
        /\ ((Has(run.trace, "events_commit_failed") \/ Has(run.trace, "correlations_commit_failed"))
                /\ run.up) =>
              \E i \in DOMAIN run.trace : run.trace[i] \in PredictabilityMarkers

\* C3 (as claimed): right after the correlation stage has stored every
\* category and committed, the correlation rows of the security are exactly
\* the newly computed set, one per category present among its events.
C3_CorrelationsReplaced ==
    (/\ run.pc # "idle"
     /\ run.trace # <<>>
     /\ run.trace[Len(run.trace)] = "correlations_commit"
     /\ ~Has(run.trace, "correlations_write_partial")) =>
        CorrRows(run.stock) = run.correlations

\* C4 (as claimed): a security that has predictability rows has at most one
\* per calendar day, and exactly one of them is current, the latest.
C4_OneCurrentRecord ==
    \A s \in Stocks :
        ScoreIds(s) # {} =>
            /\ \A i, j \in ScoreIds(s) : i # j => scores[i].day # scores[j].day
            /\ Cardinality({i \in ScoreIds(s) : scores[i].is_current}) = 1
            /\ \A i \in ScoreIds(s) :
                 scores[i].is_current => \A j \in ScoreIds(s) : scores[j].day <= scores[i].day

\* C5: in analyze_stock a raising correlation stage makes the status PARTIAL
\* and the scoring stage is still executed, a raising scoring stage makes the
\* status PARTIAL, the run returns with completed_at set, and a status that
\* is PARTIAL stays PARTIAL up to the returned result.
C5_StageFailureState ==
    /\ AnalyzeRun =>
        /\ (Has(run.trace, "correlations_raised") \/ Has(run.trace, "score_raised")) =>
              run.status = "PARTIAL"
        /\ (Has(run.trace, "correlations_raised") /\ run.up /\ run.pc \in {"finish", "idle"}) =>
              (Has(run.trace, "score_read") \/ Has(run.trace, "score_raised"))
        /\ (run.pc = "idle" /\ run.status = "PARTIAL") =>
              (run.completed /\ results[run.stock] = ResultOf(run))
    /\ \A s \in Stocks : results[s].status = "PARTIAL" => results[s].completed

C5_StatusKept ==
    (AnalyzeRun /\ run.status = "PARTIAL" /\ run' # run) =>
        IF run.pc \in {"finish", "failed"}
        THEN results'[run.stock].status = "PARTIAL" /\ results'[run.stock].completed
        ELSE run.pc # "idle" => run'.status = "PARTIAL"

C5_PartialAndComplete == [](C5_StageFailureState) /\ [][C5_StatusKept]_vars

C5_Witness ==
    /\ AnalyzeRun
    /\ run.pc = "idle"
    /\ run.trace # <<>>
    /\ run.trace[1] = "events_read"
    /\ Has(run.trace, "correlations_raised")
    /\ Has(run.trace, "score_raised")
    /\ results[run.stock].status = "PARTIAL"
    /\ results[run.stock].completed

\* C6 (as claimed): whatever the flags, analyze_stock returns FAILED exactly
\* when the first thing that happens in the run is a failure (no stage has
\* done any work yet); a FAILED run stops there and has written nothing.
C6_FailedIffNothingStarted ==
    (AnalyzeRun /\ run.pc \in {"finish", "failed"}) =>
        /\ (run.status = "FAILED") <=> (run.trace # <<>> /\ run.trace[1] \in RaisedMarkers)
        /\ run.status = "FAILED" => (Len(run.trace) = 1 /\ pending = NoPending)

\* C7 (as claimed): a request that arrives when the run has finished, the run
\* having committed the new row and deleted the request's cache key, is never
\* served a cached response that differs from what the store now gives.
C7_NoStaleAfterInvalidation ==
    (reader.hit /\ reader.invalidated) => reader.fresh

\* C8: within one run of analyze_stock the stages execute in the order events,
\* correlations, predictability; the events stage has committed (or rolled
\* back) before any correlation row is written, so no event mutation is
\* unflushed then, and the correlation stage has committed (or rolled back)
\* before the scorer reads and before the predictability row is written.
C8_StageOrder ==
    /\ \A i, j \in DOMAIN run.trace :
         i < j => StageRank(run.trace[i]) <= StageRank(run.trace[j])
    /\ \A j \in DOMAIN run.trace :
         (run.ue /\ run.trace[j] \in {"correlations_write", "correlations_write_partial"}) =>
            \E i \in 1..(j - 1) : run.trace[i] \in {"events_commit", "events_commit_failed"}
    /\ \A j \in DOMAIN run.trace :
         (run.uc /\ run.trace[j] \in {"score_read", "score_raised"}) =>
            \E i \in 1..(j - 1) :
               run.trace[i] \in {"correlations_commit", "correlations_commit_failed",
                                 "correlations_none", "correlations_raised"}
    /\ run.pc \in {"correlations", "correlations_commit"} => DOMAIN pending.ev = {}
    /\ pending.corr # {} => DOMAIN pending.ev = {}
    /\ run.pc \in {"predictability", "predictability_commit"} =>
         (DOMAIN pending.ev = {} /\ pending.corr = {})
    /\ pending.score # {} => (DOMAIN pending.ev = {} /\ pending.corr = {})

C8_Witness ==
    /\ run.ue /\ run.uc /\ run.up
    /\ Has(run.trace, "events_commit_failed")
    /\ Has(run.trace, "correlations_commit")
    /\ Has(run.trace, "predictability_commit")
    /\ run.events_analyzed > 0

\* C9: batch_analyze_stocks returns a result for every requested id: no id is
\* dropped while the batch runs, whatever the status of the ids before it.
C9_BatchCoversAll ==
    run.entry = "batch" =>
        /\ run.pc = "idle" => \A s \in Range(run.requested) : results[s].status # Nil
        /\ run.pc # "idle" =>
             Range(run.requested) =
                {s \in Stocks : results[s] # NoResult} \cup {run.stock} \cup Range(queue)

C9_Witness ==
    /\ run.entry = "batch"
    /\ run.pc = "idle"
    /\ Len(run.requested) >= 2
    /\ run.requested[1] # run.requested[2]
    /\ results[run.requested[1]].status = "FAILED"
    /\ results[run.requested[2]].status = "PARTIAL"

\* C10: a step of a run for security A leaves the event rows, correlation
\* rows, predictability rows and cache entries of every other security as
\* they were, and the keys the run deletes are keys of A.
C10_StepFrame ==
    (run.pc # "idle" /\ run' # run) =>
        /\ \A s \in Stocks \ {run.stock} :
             /\ EventRows(s)' = EventRows(s)
             /\ CorrRows(s)' = CorrRows(s)
             /\ ScoreRows(s)' = ScoreRows(s)
             /\ CacheRows(s)' = CacheRows(s)
        /\ run'.stock = run.stock => run'.deleted \subseteq KeysOfStock(run.stock)

C10_OtherStocksUntouched == [][C10_StepFrame]_vars

C10_Witness ==
    /\ run.entry = "batch"
    /\ Len(run.requested) >= 2
    /\ run.stock # run.requested[1]
    /\ results[run.requested[1]].status = "SUCCESS"
    /\ EventRows(run.requested[1])[run.requested[1]].sentiment # Nil
    /\ run.events_analyzed > 0
    /\ Has(run.trace, "events_commit")
    /\ Has(run.trace, "correlations_commit")
    /\ run.deleted # {}
    /\ \E k \in KeysOfStock(run.requested[1]) : cache[k] = DefaultResponse

(***************************************************************************)
(* Part 2: the analysis engines (backend/app/analysis), called as          *)
(* functions: `call` records the function, its arguments and its result.   *)
(***************************************************************************)
MaxWords == 3

RECURSIVE GCD(_, _)
GCD(a, b) == IF b = 0 THEN a ELSE GCD(b, a % b)

\* Exact fractions n/d with d > 0, in lowest terms, stand for the engines'
\* float values.
Frac(n, d) ==
    LET g == GCD(IF n < 0 THEN 0 - n ELSE n, d)
    IN [n |-> n \div g, d |-> d \div g]
FZero == Frac(0, 1)
FOne == Frac(1, 1)
FNeg(a) == Frac(0 - a.n, a.d)
FAdd(a, b) == Frac(a.n * b.d + b.n * a.d, a.d * b.d)
FSub(a, b) == FAdd(a, FNeg(b))
FMul(a, b) == Frac(a.n * b.n, a.d * b.d)
FLess(a, b) == a.n * b.d < b.n * a.d
FLeq(a, b) == a.n * b.d <= b.n * a.d
FEq(a, b) == a.n * b.d = b.n * a.d
FMin(a, b) == IF FLess(b, a) THEN b ELSE a
FMax(a, b) == IF FLess(a, b) THEN b ELSE a
\* int(x) of a non-negative value.
FInt(a) == a.n \div a.d

(***************************************************************************)
(* SentimentAnalyzer.analyze                                               *)
(***************************************************************************)
\* Entries of the word lists, weights in tenths.
POSITIVE_WORDS == [gain |-> 10, strong |-> 8]
NEGATIVE_WORDS == [loss |-> 10, risk |-> 7]
NEGATION_WORDS == {"not"}
INTENSIFIERS == [very |-> 15, slightly |-> 5]
NEUTRAL_THRESHOLD == Frac(2, 10)

\* The words a text is made of: lexicon entries and one word outside them.
Vocabulary ==
    DOMAIN POSITIVE_WORDS \cup DOMAIN NEGATIVE_WORDS \cup NEGATION_WORDS
        \cup DOMAIN INTENSIFIERS \cup {"shares"}

\* A text: the empty string, whitespace only, symbols only (non-blank but no
\* \w character), or words separated by spaces.
Texts ==
    {[kind |-> k, words |-> <<>>] : k \in {"empty", "blank", "symbols"}}
        \cup {[kind |-> "words", words |-> w] :
                w \in UNION {[1..n -> Vocabulary] : n \in 1..MaxWords}}

\* `not text or not text.strip()`
IsBlankText(text) == text.kind \in {"empty", "blank"}

\* re.findall(r'\b\w+\b', text.lower())
FindWords(text) == IF text.kind = "words" THEN text.words ELSE <<>>

\* The multiplier of the word at i: the intensifier right before it, or 1.0.
Multiplier(words, i) ==
    IF i > 1 /\ words[i - 1] \in DOMAIN INTENSIFIERS
    THEN INTENSIFIERS[words[i - 1]]
    ELSE 10

\* Variant: a negation word never negates.
NegationIgnored(words, i) == FALSE

\* The negation flag of the word at i: a negation word right before it.
Negation(words, i) == i > 1 /\ words[i - 1] \in NEGATION_WORDS

\* What the word at i adds to positive_score and to negative_score (hundredths).
AddsPositive(words, i) ==
    IF words[i] \in DOMAIN POSITIVE_WORDS /\ ~Negation(words, i)
    THEN POSITIVE_WORDS[words[i]] * Multiplier(words, i)
    ELSE IF words[i] \in DOMAIN NEGATIVE_WORDS /\ Negation(words, i)
    THEN NEGATIVE_WORDS[words[i]] * Multiplier(words, i)
    ELSE 0

AddsNegative(words, i) ==
    IF words[i] \in DOMAIN POSITIVE_WORDS /\ Negation(words, i)
    THEN POSITIVE_WORDS[words[i]] * Multiplier(words, i)
    ELSE IF words[i] \in DOMAIN NEGATIVE_WORDS /\ ~Negation(words, i)
    THEN NEGATIVE_WORDS[words[i]] * Multiplier(words, i)
    ELSE 0

RECURSIVE PositiveScore(_, _)
\* positive_score after the first i words.
PositiveScore(words, i) ==
    IF i = 0 THEN 0 ELSE PositiveScore(words, i - 1) + AddsPositive(words, i)

RECURSIVE NegativeScore(_, _)
\* negative_score after the first i words.
NegativeScore(words, i) ==
    IF i = 0 THEN 0 ELSE NegativeScore(words, i - 1) + AddsNegative(words, i)

\* (positive - negative) / (positive + negative), 0.0 when nothing scored,
\* then max(-1.0, min(1.0, .)).
SentimentScore(words) ==
    LET positive_score == PositiveScore(words, Len(words))
        negative_score == NegativeScore(words, Len(words))
        total_score == positive_score + negative_score
        sentiment_score == IF total_score = 0 THEN FZero
                           ELSE Frac(positive_score - negative_score, total_score)
    IN FMax(FNeg(FOne), FMin(FOne, sentiment_score))

\* Variant: the thresholds belong to the outer categories.
SentimentCategoryInclusive(score) ==
    IF FLeq(NEUTRAL_THRESHOLD, score) THEN "POSITIVE"
    ELSE IF FLeq(score, FNeg(NEUTRAL_THRESHOLD)) THEN "NEGATIVE"
    ELSE "NEUTRAL"

\* The category of a score.
SentimentCategoryOf(score) ==
    IF FLess(NEUTRAL_THRESHOLD, score) THEN "POSITIVE"
    ELSE IF FLess(score, FNeg(NEUTRAL_THRESHOLD)) THEN "NEGATIVE"
    ELSE "NEUTRAL"

\* analyze(text)
Analyze(text) ==
    IF IsBlankText(text) \/ FindWords(text) = <<>>
    THEN [score |-> FZero, category |-> "NEUTRAL"]
    ELSE LET s == SentimentScore(FindWords(text))
         IN [score |-> s, category |-> SentimentCategoryOf(s)]

CallAnalyze(text) ==
    /\ call = NoCall
    /\ call' = [fn |-> "analyze", arg |-> text, out |-> Analyze(text)]
    /\ UNCHANGED <<events, corr, scores, cache, pending, today, calls, queue, results, run, reader, limiter, clock>>

(***************************************************************************)
(* EventCategorizer.categorize_event                                       *)
(***************************************************************************)
MaxTextWords == 2
FillerWords == 12

\* The categories whose keyword list holds the word: "q4", "dividend" and
\* "merger" are keywords of two categories; "call", "shares" and "disclaimer"
\* are keywords of none.
KeywordCategories ==
    [earnings |-> {"earnings"}, call |-> {}, q4 |-> {"earnings", "seasonal"},
     dividend |-> {"technical", "dividend"}, merger |-> {"technical", "merger"},
     sector |-> {"sector"}, shares |-> {}, disclaimer |-> {}]

\* The keywords made of two words: 'earnings call' is one of earnings.
PairKeywords == {<<"earnings", "call", "earnings">>}

\* 'weight' of a category, in tenths.
CategoryWeight(c) ==
    IF c = "seasonal" THEN 9 ELSE IF c = "sector" THEN 8 ELSE 10

\* How many whitespace-separated words a vocabulary entry stands for:
\* "disclaimer" is a run of FillerWords keyword-free words.
WordsIn(w) == IF w = "disclaimer" THEN FillerWords ELSE 1

\* Headlines and contents: the empty string, whitespace only, symbols only, or
\* words of the vocabulary.
HeadlineTexts ==
    {[kind |-> k, words |-> <<>>] : k \in {"empty", "blank", "symbols"}}
        \cup {[kind |-> "words", words |-> w] :
                w \in UNION {[1..n -> DOMAIN KeywordCategories] : n \in 1..MaxTextWords}}

\* The words of f"{headline} {content}".
CombinedWords(headline, content) == FindWords(headline) \o FindWords(content)

RECURSIVE SumWordsIn(_, _)
SumWordsIn(words, i) ==
    IF i = 0 THEN 0 ELSE SumWordsIn(words, i - 1) + WordsIn(words[i])

\* len(combined_text.split()): a text of symbols is one item.
TotalTextLength(headline, content) ==
    SumWordsIn(CombinedWords(headline, content), Len(CombinedWords(headline, content)))
        + (IF headline.kind = "symbols" THEN 1 ELSE 0)
        + (IF content.kind = "symbols" THEN 1 ELSE 0)

\* A pair of words next to each other across the join of headline and content
\* is adjacent in the combined text unless symbols stand between them.
PairAt(headline, content, i) ==
    LET words == CombinedWords(headline, content)
        join == Len(FindWords(headline))
    IN IF i = join /\ (headline.kind = "symbols" \/ content.kind = "symbols")
       THEN <<>>
       ELSE <<words[i], words[i + 1]>>

\* match_count of a category: every keyword pattern's findall, summed.
MatchCount(headline, content, c) ==
    LET words == CombinedWords(headline, content)
    IN Cardinality({i \in DOMAIN words : c \in KeywordCategories[words[i]]})
         + Cardinality({i \in 1..(Len(words) - 1) :
                          \E k \in PairKeywords :
                             /\ k[3] = c
                             /\ PairAt(headline, content, i) = <<k[1], k[2]>>})

\* match_count of every category (keyword_counts keeps the positive ones).
KeywordCounts(headline, content) ==
    [c \in Range(Categories) |-> MatchCount(headline, content, c)]

\* The categories with a match.
Matched(keyword_counts) == {c \in DOMAIN keyword_counts : keyword_counts[c] > 0}

\* max(keyword_counts.values())
MaxMatches(keyword_counts) ==
    CHOOSE m \in Range(keyword_counts) : \A c \in DOMAIN keyword_counts : keyword_counts[c] <= m

\* min(count / max(total_text_length / 10, 1), 1.0)
TextDensity(count, total_text_length) ==
    FMin(IF total_text_length > 10 THEN Frac(10 * count, total_text_length)
         ELSE Frac(count, 1),
         FOne)

\* min((match_ratio * weight) * 0.7 + (text_density * weight) * 0.3, 1.0)
CategoryConfidence(c, count, max_matches, total_text_length) ==
    LET weight == Frac(CategoryWeight(c), 10)
        match_ratio == Frac(count, max_matches)
        text_density == TextDensity(count, total_text_length)
    IN FMin(FAdd(FMul(FMul(match_ratio, weight), Frac(7, 10)),
                 FMul(FMul(text_density, weight), Frac(3, 10))),
            FOne)

\* category_scores: the confidence of every category with a match.
CategoryScores(keyword_counts, total_text_length) ==
    [c \in Matched(keyword_counts) |->
        CategoryConfidence(c, keyword_counts[c], MaxMatches(keyword_counts),
                           total_text_length)]

\* Variant: an item also replaces the best one when it equals it.
ReplacesBestOnTie(score, best_score) == FLeq(best_score, score)

\* max(.) keeps the item it holds unless the next one is greater.
ReplacesBest(score, best_score) == FLess(best_score, score)

RECURSIVE MaxItemFrom(_, _, _)
\* max(category_scores.items(), key = score) from the i-th category on, `best`
\* being the best item so far: the dict is in the order of CATEGORY_KEYWORDS,
\* the order in which the categories were counted and scored.
MaxItemFrom(category_scores, i, best) ==
    IF i > NumCategories THEN best
    ELSE IF Categories[i] \notin DOMAIN category_scores
    THEN MaxItemFrom(category_scores, i + 1, best)
    ELSE IF best = Nil
    THEN MaxItemFrom(category_scores, i + 1, Categories[i])
    ELSE IF ReplacesBest(category_scores[Categories[i]], category_scores[best])
    THEN MaxItemFrom(category_scores, i + 1, Categories[i])
    ELSE MaxItemFrom(category_scores, i + 1, best)

\* primary_category[0]
PrimaryCategory(category_scores) == MaxItemFrom(category_scores, 1, Nil)

\* The categories of the returned map: all of them with return_all, else the
\* ones other than the primary that reach half its confidence.
ReturnedCategories(category_scores, primary_name, return_all) ==
    IF return_all THEN DOMAIN category_scores
    ELSE {c \in DOMAIN category_scores :
            /\ c # primary_name
            /\ FLeq(FMul(category_scores[primary_name], Frac(1, 2)), category_scores[c])}

\* `not headline or (not headline.strip() and not content.strip())`
IsEmptyInput(headline, content) ==
    \/ headline.kind = "empty"
    \/ IsBlankText(headline) /\ IsBlankText(content)

\* Variant: a text without keywords belongs to no category.
NoMatchUncategorized == [category |-> "other", confidence |-> Frac(1, 10), scores |-> <<>>]

\* The result for a text without keywords.
NoMatch ==
    [category |-> "sector", confidence |-> Frac(1, 10),
     scores |-> [c \in {"sector"} |-> Frac(1, 10)]]

\* categorize_event(headline, content, return_all)
CategorizeEvent(headline, content, return_all) ==
    LET keyword_counts == KeywordCounts(headline, content)
        category_scores == CategoryScores(keyword_counts,
                                          TotalTextLength(headline, content))
        primary_name == PrimaryCategory(category_scores)
    IN IF IsEmptyInput(headline, content)
       THEN [category |-> "sector", confidence |-> FZero, scores |-> <<>>]
       ELSE IF Matched(keyword_counts) = {}
       THEN NoMatch
       ELSE [category |-> primary_name,
             confidence |-> category_scores[primary_name],
             scores |-> [c \in ReturnedCategories(category_scores, primary_name, return_all)
                           |-> category_scores[c]]]

CallCategorizeEvent(headline, content, return_all) ==
    /\ call = NoCall
    /\ call' = [fn |-> "categorize_event",
                arg |-> [headline |-> headline, content |-> content, return_all |-> return_all],
                out |-> CategorizeEvent(headline, content, return_all)]
    /\ UNCHANGED <<events, corr, scores, cache, pending, today, calls, queue, results, run, reader, limiter, clock>>

(***************************************************************************)
(* CorrelationAnalyzer.find_correlations                                   *)
(***************************************************************************)
MaxSamples == 3
MIN_SAMPLE_SIZE == 20
LookAheadDays == 10

WINDOWS ==
    <<[name |-> "same_day", start_hours |-> 0, end_hours |-> 8],
      [name |-> "next_day", start_hours |-> 8, end_hours |-> 32],
      [name |-> "lagged_2_5", start_hours |-> 32, end_hours |-> 120]>>

RECURSIVE SumSeq(_)
\* sum(.) of a list of integers.
SumSeq(s) == IF s = <<>> THEN 0 ELSE s[1] + SumSeq(Tail(s))

\* round(x, 3), x a fraction.
Round3(a) == Frac((2000 * a.n + a.d) \div (2 * a.d), 1000)

\* A StockPrice row of a day, or none; close_price may be None or 0.
NoPriceRow == [row |-> FALSE, has_close |-> FALSE, close_price |-> 0]
PriceRows ==
    {NoPriceRow, [row |-> TRUE, has_close |-> FALSE, close_price |-> 0]}
        \cup {[row |-> TRUE, has_close |-> TRUE, close_price |-> c] : c \in {0, 100, 102}}

\* The price rows of a stock, by date.
PriceTables == [Days -> PriceRows]

\* A NewsEvent of the stock: its date and its sentiment_score in tenths, which
\* may be None.
EventInputs ==
    {[event_date |-> d, has_sentiment |-> FALSE, sentiment_score |-> 0] : d \in Days}
        \cup {[event_date |-> d, has_sentiment |-> TRUE, sentiment_score |-> s] :
                d \in Days, s \in {0 - 5, 5}}

\* The result of query.order_by(NewsEvent.event_date).all().
EventLists ==
    {es \in UNION {[1..n -> EventInputs] : n \in 0..MaxEvents} :
        \A i, j \in DOMAIN es : i < j => es[i].event_date <= es[j].event_date}

\* price_map[d], for d in price_map.
PriceOn(prices, d) == IF d \in Days THEN prices[d] ELSE NoPriceRow

\* `p.close_price` as a condition.
Truthy(p) == p.has_close /\ p.close_price # 0

\* date + timedelta(hours = h): a date moves by whole days only.
PlusHours(d, h) == d + (h \div 24)

\* Variant: the dates are datetimes, whose date() returns the day.
DateMethodOfDatetime(d) == [raised |-> FALSE, value |-> d]

\* x.date() of a datetime.date x: AttributeError.
DateMethod(d) == [raised |-> TRUE, value |-> d]

\* The first day_offset in range(0, 10) whose price is inside the window, or
\* LookAheadDays when there is none.
FirstOffset(event, prices, w) ==
    LET inside(k) ==
            /\ PriceOn(prices, event.event_date + k).row
            /\ Truthy(PriceOn(prices, event.event_date + k))
            /\ event.event_date + k >= DateMethod(PlusHours(event.event_date, w.start_hours)).value
            /\ event.event_date + k <= DateMethod(PlusHours(event.event_date, w.end_hours)).value
    IN IF \E k \in 0..(LookAheadDays - 1) : inside(k)
       THEN CHOOSE k \in 0..(LookAheadDays - 1) :
                inside(k) /\ \A j \in 0..(k - 1) : ~inside(j)
       ELSE LookAheadDays

\* price_change_pct = (price_change / event_price.close_price) * 100
RawPriceChangePct(event_price, window_price) ==
    Frac((window_price.close_price - event_price.close_price) * 100,
         event_price.close_price)

\* price_change_pct as stored in the sample, rounded to 3 decimals.
PriceChangePct(event_price, window_price) ==
    Round3(RawPriceChangePct(event_price, window_price))

\* 'UP' above 0.5 %, 'DOWN' below -0.5 %, else 'FLAT'.
DirectionOf(pct) ==
    IF FLess(Frac(1, 2), pct) THEN "UP"
    ELSE IF FLess(pct, Frac(0 - 1, 2)) THEN "DOWN"
    ELSE "FLAT"

\* sentiment_direction of an event: None counts as 0.0.
SentimentDirection(event) ==
    LET sentiment_score == IF event.has_sentiment THEN event.sentiment_score ELSE 0
    IN IF sentiment_score > 3 THEN "UP"
       ELSE IF sentiment_score < 0 - 3 THEN "DOWN"
       ELSE "FLAT"

NoSample == [kind |-> "skip", price_change_pct |-> FZero, direction |-> "FLAT",
             days_to_move |-> 0, win |-> FALSE]

\* One pass of the loop over the events: the event is skipped, the pass
\* raises, or a sample is appended to `correlations`.
EventSample(event, prices, w) ==
    LET event_price == PriceOn(prices, event.event_date)
        k == FirstOffset(event, prices, w)
        pct == PriceChangePct(event_price, PriceOn(prices, event.event_date + k))
        raw == RawPriceChangePct(event_price, PriceOn(prices, event.event_date + k))
    IN IF ~event_price.row \/ ~Truthy(event_price)
       THEN NoSample
       ELSE IF DateMethod(PlusHours(event.event_date, w.start_hours)).raised
       THEN [NoSample EXCEPT !.kind = "raise"]
       ELSE IF k = LookAheadDays
       THEN NoSample
       ELSE [kind |-> "sample", price_change_pct |-> pct, direction |-> DirectionOf(raw),
             days_to_move |-> k, win |-> (SentimentDirection(event) = DirectionOf(raw))]

\* UP = 1, FLAT = 0, DOWN = -1
DirectionNumber(c) ==
    IF c.direction = "UP" THEN 1 ELSE IF c.direction = "DOWN" THEN 0 - 1 ELSE 0

\* n * sum(x * y) - sum(x) * sum(y): n * (n - 1) times the covariance np.cov
\* computes.
ScaledCovariance(xs, ys) ==
    Len(xs) * SumSeq([i \in DOMAIN xs |-> xs[i] * ys[i]]) - SumSeq(xs) * SumSeq(ys)

\* Variant: the products are not centred on the means.
PearsonUncentred(xs, ys) ==
    [cov |-> Len(xs) * SumSeq([i \in DOMAIN xs |-> xs[i] * ys[i]]),
     var_x |-> ScaledCovariance(xs, xs), var_y |-> ScaledCovariance(ys, ys)]

\* The entries of np.cov(directions, price_changes), each times n * (n - 1).
Pearson(xs, ys) ==
    [cov |-> ScaledCovariance(xs, ys),
     var_x |-> ScaledCovariance(xs, xs), var_y |-> ScaledCovariance(ys, ys)]

\* _calculate_correlation_coefficient(correlations): the coefficient is
\* sign * sqrt(square); np.corrcoef gives nan when a variance is 0.
CalculateCorrelationCoefficient(correlations) ==
    LET directions == [i \in DOMAIN correlations |-> DirectionNumber(correlations[i])]
        price_changes == [i \in DOMAIN correlations |->
                            (correlations[i].price_change_pct.n * 1000)
                                \div correlations[i].price_change_pct.d]
        c == Pearson(directions, price_changes)
    IN IF Len(correlations) < 2
       THEN [sign |-> 0, square |-> FZero]
       ELSE IF c.var_x = 0 \/ c.var_y = 0
       THEN [sign |-> 0, square |-> FZero]
       ELSE [sign |-> IF c.cov > 0 THEN 1 ELSE IF c.cov < 0 THEN 0 - 1 ELSE 0,
             square |-> Frac(c.cov * c.cov, c.var_x * c.var_y)]

\* The rolling win rates of _calculate_consistency: windows of min(5, n) wins.
RollingWins(correlations) ==
    LET n == Len(correlations)
        window_size == IF n < 5 THEN n ELSE 5
    IN [i \in 1..(n - window_size + 1) |->
          Frac(Cardinality({j \in i..(i + window_size - 1) : correlations[j].win}),
               window_size)]

RECURSIVE FSum(_)
FSum(s) == IF s = <<>> THEN FZero ELSE FAdd(s[1], FSum(Tail(s)))

\* np.std(.) ** 2
Variance(s) ==
    LET mean == FMul(FSum(s), Frac(1, Len(s)))
    IN FMul(FSum([i \in DOMAIN s |-> FMul(FSub(s[i], mean), FSub(s[i], mean))]),
            Frac(1, Len(s)))

\* _calculate_consistency(correlations): 0.0 below two samples, else
\* max(0.0, 1.0 - std_dev); the value is 1 - sqrt(variance).
CalculateConsistency(correlations) ==
    IF Len(correlations) < 2
    THEN [zero |-> TRUE, variance |-> FZero]
    ELSE [zero |-> FLeq(FOne, Variance(RollingWins(correlations))),
          variance |-> Variance(RollingWins(correlations))]

\* The statistics of a window over the samples collected.
WindowStatistics(correlations) ==
    LET total_count == Len(correlations)
        win_count == Cardinality({i \in DOMAIN correlations : correlations[i].win})
    IN IF total_count = 0
       THEN [raised |-> FALSE, sample_size |-> 0, win_rate |-> FZero,
             avg_price_change_pct |-> FZero,
             correlation_coefficient |-> [sign |-> 0, square |-> FZero],
             consistency |-> [zero |-> TRUE, variance |-> FZero]]
       ELSE [raised |-> FALSE, sample_size |-> total_count,
             win_rate |-> Round3(Frac(win_count, total_count)),
             avg_price_change_pct |->
                 Round3(FMul(FSum([i \in DOMAIN correlations |->
                                     correlations[i].price_change_pct]),
                             Frac(1, total_count))),
             correlation_coefficient |-> CalculateCorrelationCoefficient(correlations),
             consistency |-> CalculateConsistency(correlations)]

\* _analyze_window(events, price_map, start_hours, end_hours)
AnalyzeWindow(evs, prices, w) ==
    LET passes == [i \in DOMAIN evs |-> EventSample(evs[i], prices, w)]
        IsSample(c) == c.kind = "sample"
    IN IF \E i \in DOMAIN passes : passes[i].kind = "raise"
       THEN [WindowStatistics(<<>>) EXCEPT !.raised = TRUE]
       ELSE WindowStatistics(SelectSeq(passes, IsSample))

\* _calculate_overall_win_rate(window_results)
CalculateOverallWinRate(window_results) ==
    LET counted == {i \in DOMAIN window_results : window_results[i].sample_size > 0}
        wins == [i \in DOMAIN window_results |->
                   IF i \in counted
                   THEN FInt(FMul(window_results[i].win_rate,
                                  Frac(window_results[i].sample_size, 1)))
                   ELSE 0]
        sizes == [i \in DOMAIN window_results |->
                    IF i \in counted THEN window_results[i].sample_size ELSE 0]
    IN IF SumSeq(sizes) = 0 THEN FZero ELSE Frac(SumSeq(wins), SumSeq(sizes))

\* _calculate_confidence(sample_size, min_sample)
CalculateConfidence(sample_size, min_sample) ==
    IF sample_size = 0 THEN FZero ELSE FMin(Frac(sample_size, min_sample), FOne)

\* The result returned when there are no events or no prices.
NoDataResult ==
    [raised |-> FALSE, windows |-> <<>>, overall_win_rate |-> FZero,
     sample_size |-> 0, confidence |-> FZero]

\* find_correlations over the events and the price rows the queries return.
FindCorrelationsOn(evs, prices) ==
    LET window_results == [i \in DOMAIN WINDOWS |-> AnalyzeWindow(evs, prices, WINDOWS[i])]
        valid_events == SumSeq([i \in DOMAIN WINDOWS |-> window_results[i].sample_size])
    IN IF evs = <<>>
       THEN NoDataResult
       ELSE IF \A d \in Days : ~prices[d].row
       THEN NoDataResult
       ELSE IF \E i \in DOMAIN WINDOWS : window_results[i].raised
       THEN [NoDataResult EXCEPT !.raised = TRUE]
       ELSE [raised |-> FALSE, windows |-> window_results,
             overall_win_rate |-> Round3(CalculateOverallWinRate(window_results)),
             sample_size |-> valid_events,
             confidence |-> Round3(CalculateConfidence(valid_events, MIN_SAMPLE_SIZE))]

CallFindCorrelations(evs, prices) ==
    /\ call = NoCall
    /\ call' = [fn |-> "find_correlations",
                arg |-> [events |-> evs, prices |-> prices],
                out |-> FindCorrelationsOn(evs, prices)]
    /\ UNCHANGED <<events, corr, scores, cache, pending, today, calls, queue, results, run, reader, limiter, clock>>

\* The lists of samples _calculate_correlation_coefficient may be given:
\* price changes of -2 %, -0.4 %, 0, 0.6 % and 2 % with any direction.
SampleLists ==
    UNION {[1..n -> {[kind |-> "sample", price_change_pct |-> Frac(p, 10), direction |-> d,
                      days_to_move |-> 0, win |-> FALSE] :
                        p \in {0 - 20, 0 - 4, 0, 6, 20}, d \in {"UP", "DOWN", "FLAT"}}] :
           n \in 0..MaxSamples}

CallCorrelationCoefficient(correlations) ==
    /\ call = NoCall
    /\ call' = [fn |-> "_calculate_correlation_coefficient",
                arg |-> correlations,
                out |-> CalculateCorrelationCoefficient(correlations)]
    /\ UNCHANGED <<events, corr, scores, cache, pending, today, calls, queue, results, run, reader, limiter, clock>>

(***************************************************************************)
(* PredictabilityScorer.score_stock                                        *)
(***************************************************************************)
MaxCorrelations == 2

\* WEIGHTS, in hundredths: information, pattern, timing, direction.
WEIGHTS_Equal == [information |-> 25, pattern |-> 25, timing |-> 25, direction |-> 25]

WEIGHTS == [information |-> 30, pattern |-> 25, timing |-> 25, direction |-> 20]

\* The base score of a factor that has no data.
BaseScoreZero == FZero

BaseScore == Frac(10, 1)

\* np.mean(.)
FMean(s) == FMul(FSum(s), Frac(1, Len(s)))

\* abs(.)
FAbs(a) == IF a.n < 0 THEN FNeg(a) ELSE a

\* min(hi, max(lo, x))
FClamp(lo, x, hi) == FMin(hi, FMax(lo, x))

\* round(x, 2), x a non-negative fraction.
Round2(a) == Frac((200 * a.n + a.d) \div (2 * a.d), 100)

\* The events of the look-back period, each with the age of its event_date in
\* days (today, 10 days, 45 days) and its sentiment_score, which may be None:
\* 0.0, 0.5 and -0.8.
ScoredEvents ==
    {[days_old |-> d, has_sentiment |-> FALSE, sentiment_score |-> FZero] : d \in {0, 10, 45}}
        \cup {[days_old |-> d, has_sentiment |-> TRUE, sentiment_score |-> Frac(s, 10)] :
                d \in {0, 10, 45}, s \in {0, 5, 0 - 8}}

\* EventPriceCorrelation rows; every column but the keys may be None.
NoValues ==
    [has_win_rate |-> FALSE, historical_win_rate |-> FZero,
     has_sample_size |-> FALSE, sample_size |-> 0,
     has_days |-> FALSE, days_to_move |-> 0,
     price_direction |-> "None",
     has_price_change |-> FALSE, price_change_pct |-> FZero]

\* The row analysis_service stores for a category without samples.
EmptyCategoryRow ==
    [NoValues EXCEPT !.has_win_rate = TRUE, !.has_sample_size = TRUE]

FilledRow(win_rate, sample_size, days, direction, pct) ==
    [has_win_rate |-> TRUE, historical_win_rate |-> win_rate,
     has_sample_size |-> TRUE, sample_size |-> sample_size,
     has_days |-> TRUE, days_to_move |-> days,
     price_direction |-> direction,
     has_price_change |-> TRUE, price_change_pct |-> pct]

\* The row analysis_service stores for a category with samples: a win rate
\* and a sample size, no price change and no days_to_move.
StoredCategoryRow ==
    [NoValues EXCEPT !.has_win_rate = TRUE, !.historical_win_rate = Frac(7, 10),
                     !.has_sample_size = TRUE, !.sample_size = 50]

CorrelationRows ==
    <<NoValues,
      EmptyCategoryRow,
      FilledRow(Frac(7, 10), 50, 0, "UP", Frac(2, 1)),
      FilledRow(Frac(6, 10), 20, 1, "DOWN", Frac(0 - 1, 1)),
      FilledRow(Frac(9, 10), 50, 3, "FLAT", Frac(3, 10)),
      StoredCategoryRow>>

\* The lists a query returns, up to the order of the rows.
ScoredEventLists ==
    UNION {[1..n -> ScoredEvents] : n \in 0..MaxEvents}

CorrelationLists ==
    {[i \in DOMAIN ix |-> CorrelationRows[ix[i]]] :
        ix \in {s \in UNION {[1..n -> DOMAIN CorrelationRows] : n \in 0..MaxCorrelations} :
                  \A i, j \in DOMAIN s : i < j => s[i] <= s[j]}}

\* [x for x in xs if test(x)], as the values value(x).
Collect(xs, keep(_), value(_)) ==
    LET kept == SelectSeq(xs, keep)
    IN [i \in DOMAIN kept |-> value(kept[i])]

\* (today - max(e.event_date for e in events)).days
DaysOld(evs) ==
    CHOOSE d \in {evs[i].days_old : i \in DOMAIN evs} :
        \A i \in DOMAIN evs : d <= evs[i].days_old

\* `c.historical_win_rate` as a condition: neither None nor 0.0.
HasWinRate(c) == c.has_win_rate /\ c.historical_win_rate.n # 0
HasSampleSize(c) == c.has_sample_size /\ c.sample_size # 0
HasPriceChange(c) == c.has_price_change /\ c.price_change_pct.n # 0
HasTruthySentiment(e) == e.has_sentiment /\ e.sentiment_score.n # 0
HasSentiment(e) == e.has_sentiment
WinRateOf(c) == c.historical_win_rate
SampleSizeOf(c) == Frac(c.sample_size, 1)
SentimentOf(e) == e.sentiment_score

\* _score_information(events)
ScoreInformation(evs) ==
    LET event_count_score == FMin(FMul(Frac(Len(evs), 30), Frac(40, 1)), Frac(40, 1))
        confidence_score == FMul(Frac(7, 10), Frac(30, 1))
        sentiments == Collect(evs, HasSentiment, SentimentOf)
        sentiment_score == IF sentiments # <<>>
                           THEN FMul(Frac(Len(sentiments), Len(evs)), Frac(20, 1))
                           ELSE FZero
        recency_score == FMax(FZero, FSub(Frac(10, 1), Frac(DaysOld(evs), 30)))
        total_score == FAdd(FAdd(event_count_score, confidence_score),
                            FAdd(sentiment_score, recency_score))
    IN IF evs = <<>> THEN BaseScore
       ELSE FClamp(FZero, total_score, Frac(100, 1))

\* Variant of _score_pattern: the means are taken over all the records, a
\* missing value counting as 0.
ScorePatternOverAll(cors) ==
    LET avg_win_rate == FMean([i \in DOMAIN cors |-> cors[i].historical_win_rate])
        win_rate_score == FClamp(FZero,
                                 FMul(FSub(avg_win_rate, Frac(1, 2)), Frac(100, 1)),
                                 Frac(50, 1))
        avg_sample == FMean([i \in DOMAIN cors |-> Frac(cors[i].sample_size, 1)])
        sample_score == FMin(Frac(30, 1), FMul(FMul(avg_sample, Frac(1, 50)), Frac(30, 1)))
        good_correlations ==
            Cardinality({i \in DOMAIN cors : FLess(Frac(55, 100), cors[i].historical_win_rate)})
        consistency_score == FMul(Frac(good_correlations, Len(cors)), Frac(20, 1))
    IN IF cors = <<>> THEN Frac(10, 1)
       ELSE FClamp(FZero, FAdd(FAdd(win_rate_score, sample_score), consistency_score),
                   Frac(100, 1))

\* _score_pattern(correlations)
ScorePattern(cors) ==
    LET win_rates == Collect(cors, HasWinRate, WinRateOf)
        avg_win_rate == FMean(win_rates)
        win_rate_score ==
            IF win_rates # <<>>
            THEN FMin(Frac(50, 1),
                      FMax(FZero,
                           IF FLess(Frac(1, 2), avg_win_rate)
                           THEN FMul(FSub(avg_win_rate, Frac(1, 2)), Frac(100, 1))
                           ELSE FZero))
            ELSE FZero
        sample_sizes == Collect(cors, HasSampleSize, SampleSizeOf)
        sample_score ==
            IF sample_sizes # <<>>
            THEN FMin(Frac(30, 1),
                      FMul(FMul(FMean(sample_sizes), Frac(1, 50)), Frac(30, 1)))
            ELSE FZero
        good_correlations ==
            Cardinality({i \in DOMAIN cors :
                           HasWinRate(cors[i])
                               /\ FLess(Frac(55, 100), cors[i].historical_win_rate)})
        consistency_score ==
            FMul(Frac(good_correlations, IF Len(cors) > 1 THEN Len(cors) ELSE 1),
                 Frac(20, 1))
        total_score == FAdd(FAdd(win_rate_score, sample_score), consistency_score)
    IN IF cors = <<>> THEN BaseScore
       ELSE FClamp(FZero, total_score, Frac(100, 1))

\* _score_timing(correlations): days_to_move None is neither 0 nor 1.
ScoreTiming(cors) ==
    LET same_day_count ==
            Cardinality({i \in DOMAIN cors : cors[i].has_days /\ cors[i].days_to_move = 0})
        next_day_count ==
            Cardinality({i \in DOMAIN cors : cors[i].has_days /\ cors[i].days_to_move = 1})
        lagged_count == Len(cors) - same_day_count - next_day_count
        total == Len(cors)
        timing_score == FAdd(FAdd(Frac(same_day_count * 3 * 50, total),
                                  Frac(next_day_count * 2 * 30, total)),
                             Frac(lagged_count * 1 * 20, total))
    IN IF cors = <<>> THEN BaseScore
       ELSE FClamp(FZero, timing_score, Frac(100, 1))

\* _score_direction(events, correlations)
ScoreDirection(evs, cors) ==
    LET sentiments == Collect(evs, HasSentiment, SentimentOf)
        extreme_count ==
            Cardinality({i \in DOMAIN sentiments : FLess(Frac(6, 10), FAbs(sentiments[i]))})
        sentiment_clarity ==
            IF sentiments # <<>>
            THEN FMul(Frac(extreme_count, Len(sentiments)), Frac(40, 1))
            ELSE Frac(10, 1)
        IsRecent(e) == e.days_old <= 30 /\ HasTruthySentiment(e)
        recent_sentiments == Collect(evs, IsRecent, SentimentOf)
        recent_score ==
            IF recent_sentiments # <<>>
            THEN FMul(FAbs(FMean(recent_sentiments)), Frac(30, 1))
            ELSE FZero
        directions == {i \in DOMAIN cors : cors[i].price_direction # "None"}
        up_count == Cardinality({i \in directions : cors[i].price_direction = "UP"})
        down_count == Cardinality({i \in directions : cors[i].price_direction = "DOWN"})
        max_bias == Frac(IF up_count > down_count THEN up_count ELSE down_count,
                         Cardinality(directions))
        bias_score ==
            IF directions # {} /\ FLess(Frac(1, 2), max_bias)
            THEN FMax(FZero, FMul(FSub(max_bias, Frac(1, 2)), Frac(60, 1)))
            ELSE FZero
        total_score == FAdd(FAdd(sentiment_clarity, recent_score), bias_score)
    IN IF evs = <<>> THEN BaseScore
       ELSE FClamp(FZero, total_score, Frac(100, 1))

\* sorted(values)
Sorted(values) ==
    CHOOSE s \in [DOMAIN values -> Range(values)] :
        /\ \A i, j \in DOMAIN s : i < j => FLeq(s[i], s[j])
        /\ \A v \in Range(values) :
             Cardinality({i \in DOMAIN s : s[i] = v})
                 = Cardinality({i \in DOMAIN values : values[i] = v})

\* np.percentile(values, q): linear interpolation between the two nearest
\* ranks.
Percentile(values, q) ==
    LET s == Sorted(values)
        rank == Frac((Len(values) - 1) * q, 100)
        below == FInt(rank)
        above == IF below + 1 > Len(values) - 1 THEN below ELSE below + 1
    IN FAdd(s[below + 1],
            FMul(FSub(s[above + 1], s[below + 1]), FSub(rank, Frac(below, 1))))

\* _generate_prediction(events, correlations)
GeneratePrediction(evs, cors) ==
    LET IsRecent(e) == e.days_old <= 7 /\ HasTruthySentiment(e)
        sentiments == Collect(evs, IsRecent, SentimentOf)
        direction ==
            IF sentiments = <<>> THEN "SIDEWAYS"
            ELSE IF FLess(Frac(3, 10), FMean(sentiments)) THEN "UP"
            ELSE IF FLess(FMean(sentiments), Frac(0 - 3, 10)) THEN "DOWN"
            ELSE "SIDEWAYS"
        AbsChange(c) == FAbs(c.price_change_pct)
        price_changes == Collect(cors, HasPriceChange, AbsChange)
        win_rates == Collect(cors, HasWinRate, WinRateOf)
        HasDays(c) == c.has_days
        DaysOf(c) == Frac(c.days_to_move, 1)
        timings == Collect(cors, HasDays, DaysOf)
    IN [direction |-> direction,
        magnitude_low |-> Round2(IF price_changes = <<>> THEN Frac(1, 2)
                                 ELSE Percentile(price_changes, 25)),
        magnitude_high |-> Round2(IF price_changes = <<>> THEN Frac(3, 2)
                                  ELSE Percentile(price_changes, 75)),
        timing_days |-> IF price_changes = <<>> \/ timings = <<>> THEN 1
                        ELSE FInt(Percentile(timings, 50)),
        win_rate |-> Round3(IF price_changes = <<>> \/ win_rates = <<>> THEN Frac(1, 2)
                            ELSE FMean(win_rates))]

\* _calculate_confidence(events, correlations) of the scorer
ScorerConfidence(evs, cors) ==
    LET event_score == FMin(Frac(Len(evs), 30), FOne)
        correlation_score == FMin(Frac(Len(cors), 8), FOne)
        base_confidence == FMul(FAdd(event_score, correlation_score), Frac(1, 2))
        recency_factor ==
            IF evs # <<>>
            THEN FMax(Frac(3, 10), FSub(FOne, Frac(DaysOld(evs), 365)))
            ELSE Frac(3, 10)
    IN FClamp(FZero, FMul(base_confidence, recency_factor), FOne)

\* The weighted sum of the four factor scores, before int().
WeightedScore(information_score, pattern_score, timing_score, direction_score) ==
    FAdd(FAdd(FMul(information_score, Frac(WEIGHTS.information, 100)),
              FMul(pattern_score, Frac(WEIGHTS.pattern, 100))),
         FAdd(FMul(timing_score, Frac(WEIGHTS.timing, 100)),
              FMul(direction_score, Frac(WEIGHTS.direction, 100))))

\* score_stock over the events and the correlation rows the queries return.
ScoreStockOn(evs, cors) ==
    LET information_score == ScoreInformation(evs)
        pattern_score == ScorePattern(cors)
        timing_score == ScoreTiming(cors)
        direction_score == ScoreDirection(evs, cors)
        overall_score == FInt(WeightedScore(information_score, pattern_score,
                                            timing_score, direction_score))
    IN [raised |-> FALSE,
        overall_predictability_score |->
            IF overall_score > 100 THEN 100 ELSE IF overall_score < 0 THEN 0 ELSE overall_score,
        information_availability_score |-> FInt(information_score),
        pattern_consistency_score |-> FInt(pattern_score),
        timing_certainty_score |-> FInt(timing_score),
        direction_confidence_score |-> FInt(direction_score),
        weighted_score |-> WeightedScore(information_score, pattern_score,
                                         timing_score, direction_score),
        prediction |-> GeneratePrediction(evs, cors),
        sample_size |-> Len(evs),
        confidence |-> Round3(ScorerConfidence(evs, cors))]

CallScoreStock(evs, cors) ==
    /\ call = NoCall
    /\ call' = [fn |-> "score_stock",
                arg |-> [events |-> evs, correlations |-> cors],
                out |-> ScoreStockOn(evs, cors)]
    /\ UNCHANGED <<events, corr, scores, cache, pending, today, calls, queue, results, run, reader, limiter, clock>>

CallScorePattern(cors) ==
    /\ call = NoCall
    /\ call' = [fn |-> "_score_pattern", arg |-> cors, out |-> ScorePattern(cors)]
    /\ UNCHANGED <<events, corr, scores, cache, pending, today, calls, queue, results, run, reader, limiter, clock>>

\* The wins and samples a window may count (win_count, total_count of
\* _analyze_window).
WinCounts ==
    {c \in [win_count : 0..MaxSamples, total_count : 0..MaxSamples] :
        c.win_count <= c.total_count}

\* The sample_size and win_rate _analyze_window returns for these counts.
WindowResultOf(c) ==
    IF c.total_count = 0
    THEN [sample_size |-> 0, win_rate |-> FZero]
    ELSE [sample_size |-> c.total_count,
          win_rate |-> Round3(Frac(c.win_count, c.total_count))]

\* _calculate_overall_win_rate on the results of the three windows.
CallOverallWinRate(counts) ==
    /\ call = NoCall
    /\ call' = [fn |-> "_calculate_overall_win_rate",
                arg |-> counts,
                out |-> CalculateOverallWinRate([i \in DOMAIN counts |->
                                                   WindowResultOf(counts[i])])]
    /\ UNCHANGED <<events, corr, scores, cache, pending, today, calls, queue, results, run, reader, limiter, clock>>

\* The categories the events of the stock carry.
EventCategories == <<"earnings", "policy">>

\* NewsEvent rows with their event_category.
CategorizedEventLists ==
    {es \in UNION {[1..n -> [event_date : Days, has_sentiment : BOOLEAN,
                             sentiment_score : {0 - 5, 0, 5},
                             event_category : {EventCategories[i] : i \in DOMAIN EventCategories}]] :
                     n \in 0..MaxEvents} :
        /\ \A i \in DOMAIN es : ~es[i].has_sentiment => es[i].sentiment_score = 0
        /\ \A i \in DOMAIN es : es[i].has_sentiment => es[i].sentiment_score # 0
        /\ \A i, j \in DOMAIN es : i < j => es[i].event_date <= es[j].event_date}

\* find_correlations(db, stock_id, event_category): a category that is None
\* or empty does not filter.
FindCorrelationsFor(evs, prices, event_category) ==
    LET HasCategory(e) == e.event_category = event_category
    IN  IF event_category # Nil /\ event_category # ""
        THEN FindCorrelationsOn(SelectSeq(evs, HasCategory), prices)
        ELSE FindCorrelationsOn(evs, prices)

\* batch_analyze_categories(db, stock_id, categories)
BatchAnalyzeCategoriesOn(evs, prices, categories) ==
    [i \in DOMAIN categories |-> FindCorrelationsFor(evs, prices, categories[i])]

CallBatchAnalyzeCategories(evs, prices) ==
    /\ call = NoCall
    /\ call' = [fn |-> "batch_analyze_categories",
                arg |-> [events |-> evs, prices |-> prices, categories |-> EventCategories],
                out |-> BatchAnalyzeCategoriesOn(evs, prices, EventCategories)]
    /\ UNCHANGED <<events, corr, scores, cache, pending, today, calls, queue, results, run, reader, limiter, clock>>

(***************************************************************************)
(* The engines are called one call at a time, with any input.              *)
(***************************************************************************)
\* The caller has taken the result.
ReturnCall ==
    /\ call # NoCall
    /\ call' = NoCall
    /\ UNCHANGED <<events, corr, scores, cache, pending, today, calls, queue, results, run, reader, limiter, clock>>

NextAnalysis ==
    \/ \E text \in Texts : CallAnalyze(text)
    \/ \E headline \in HeadlineTexts, content \in HeadlineTexts, return_all \in BOOLEAN :
          CallCategorizeEvent(headline, content, return_all)
    \/ \E es \in EventLists, prices \in PriceTables : CallFindCorrelations(es, prices)
    \/ \E correlations \in SampleLists : CallCorrelationCoefficient(correlations)
    \/ \E evs \in ScoredEventLists, cors \in CorrelationLists : CallScoreStock(evs, cors)
    \/ \E cors \in CorrelationLists : CallScorePattern(cors)
    \/ \E counts \in [DOMAIN WINDOWS -> WinCounts] : CallOverallWinRate(counts)
    \/ \E evs \in CategorizedEventLists, prices \in PriceTables :
          CallBatchAnalyzeCategories(evs, prices)
    \/ ReturnCall

SpecAnalysis == Init /\ [][NextAnalysis]_vars

(***************************************************************************)
(* Properties of the analysis engines.                                     *)
(***************************************************************************)
\* C12: for every text analyze returns a score in [-1, 1] and a category that
\* is POSITIVE exactly when the score is above 0.2, NEGATIVE exactly when it
\* is below -0.2 and NEUTRAL otherwise; an empty or whitespace-only text gives
\* the score 0 and NEUTRAL.
C12_ScoreAndCategory ==
    call.fn = "analyze" =>
        /\ FLeq(FNeg(FOne), call.out.score) /\ FLeq(call.out.score, FOne)
        /\ call.out.category \in {"POSITIVE", "NEGATIVE", "NEUTRAL"}
        /\ (call.out.category = "POSITIVE") <=> (call.out.score.n * 5 > call.out.score.d)
        /\ (call.out.category = "NEGATIVE") <=> (call.out.score.n * 5 < 0 - call.out.score.d)
        /\ call.arg.kind \in {"empty", "blank"} =>
              (call.out.score.n = 0 /\ call.out.category = "NEUTRAL")

\* A text whose score is exactly 0.2: 1.5 * 1.0 positive against 1.0 negative.
C12_Witness ==
    /\ call.fn = "analyze"
    /\ call.arg.kind = "words"
    /\ call.arg.words = <<"very", "gain", "loss">>
    /\ call.out.score.n * 5 = call.out.score.d
    /\ call.out.category = "NEUTRAL"

\* The phrase "not " + P.
NotPhrase(text) == [kind |-> "words", words |-> <<"not">> \o text.words]

\* The only sentiment terms of the phrase are positive terms, at least one,
\* and it has no negation word of its own.
PositiveOnly(text) ==
    /\ text.kind = "words"
    /\ \A i \in DOMAIN text.words :
         text.words[i] \notin DOMAIN NEGATIVE_WORDS \cup NEGATION_WORDS
    /\ \E i \in DOMAIN text.words : text.words[i] \in DOMAIN POSITIVE_WORDS

\* C14 (as claimed): for every positive-only phrase P the score of
\* analyze("not " + P) is strictly lower than the score of analyze(P).
C14_NegationLaw ==
    (call.fn = "analyze" /\ PositiveOnly(call.arg)) =>
        FLess(Analyze(NotPhrase(call.arg)).score, call.out.score)

\* C14 (amended): for every positive-only phrase P whose first word is a
\* positive term, the score of analyze("not " + P) is strictly lower than the
\* score of analyze(P).
C14_NegationLawFirstWord ==
    (/\ call.fn = "analyze"
     /\ PositiveOnly(call.arg)
     /\ call.arg.words[1] \in DOMAIN POSITIVE_WORDS) =>
        FLess(Analyze(NotPhrase(call.arg)).score, call.out.score)

C14_Witness ==
    /\ call.fn = "analyze"
    /\ call.arg.kind = "words"
    /\ call.arg.words = <<"strong", "gain">>
    /\ FEq(call.out.score, FOne)
    /\ FEq(Analyze(NotPhrase(call.arg)).score, Frac(1, 9))

\* C13: for every headline and content categorize_event returns a confidence
\* in [0, 1] and a primary category among the eight fixed categories, and
\* every confidence of the returned score map is in [0, 1].
C13_CategoryAndConfidence ==
    call.fn = "categorize_event" =>
        /\ FLeq(FZero, call.out.confidence) /\ FLeq(call.out.confidence, FOne)
        /\ call.out.category \in Range(Categories)
        /\ \A c \in DOMAIN call.out.scores :
             FLeq(FZero, call.out.scores[c]) /\ FLeq(call.out.scores[c], FOne)

\* 'earnings call': three keyword matches in two words, and full confidence.
C13_Witness ==
    /\ call.fn = "categorize_event"
    /\ call.arg.headline.kind = "words"
    /\ call.arg.headline.words = <<"earnings", "call">>
    /\ call.arg.content.kind = "words"
    /\ call.arg.content.words = <<"q4", "disclaimer">>
    /\ call.arg.return_all
    /\ call.out.category = "earnings"
    /\ DOMAIN call.out.scores = {"earnings", "seasonal"}
    /\ FEq(call.out.confidence, FOne)
    /\ FEq(call.out.scores["seasonal"], Frac(39, 100))

\* C18: categorize_event returns the default ('sector', 0.0, no secondaries)
\* when headline and content are both empty or whitespace-only, and a
\* confidence of 0.0 only then.
C18_DefaultOnlyWhenBothBlank ==
    call.fn = "categorize_event" =>
        /\ (IsBlankText(call.arg.headline) /\ IsBlankText(call.arg.content)) =>
              /\ call.out.category = "sector"
              /\ FEq(call.out.confidence, FZero)
              /\ DOMAIN call.out.scores = {}
        /\ FEq(call.out.confidence, FZero) =>
              (IsBlankText(call.arg.headline) /\ IsBlankText(call.arg.content))

\* A window result whose rate and coefficient fields are all 0.
AllZero(w) ==
    /\ w.win_rate.n = 0
    /\ w.avg_price_change_pct.n = 0
    /\ w.correlation_coefficient.square.n = 0
    /\ w.consistency.zero

C17_NeverRaises ==
    call.fn = "find_correlations" =>
        /\ ~call.out.raised
        /\ (call.arg.events = <<>> \/ \A d \in Days : ~call.arg.prices[d].row) =>
              (call.out.sample_size = 0 /\ call.out.confidence.n = 0)

\* floor(0.30 * info + 0.25 * pattern + 0.25 * timing + 0.20 * direction) of
\* the four integer component scores of a result.
FloorOfReturned(out) ==
    (30 * out.information_availability_score + 25 * out.pattern_consistency_score
        + 25 * out.timing_certainty_score + 20 * out.direction_confidence_score) \div 100

\* The overall score and the four components are integers in [0, 100].
ScoresInRange(out) ==
    \A x \in {out.overall_predictability_score, out.information_availability_score,
              out.pattern_consistency_score, out.timing_certainty_score,
              out.direction_confidence_score} : x \in 0..100

C19_NoDataDefaults ==
    (call.fn = "score_stock" /\ call.arg.events = <<>> /\ call.arg.correlations = <<>>) =>
        /\ ~call.out.raised
        /\ call.out.information_availability_score = 10
        /\ call.out.pattern_consistency_score = 10
        /\ call.out.timing_certainty_score = 10
        /\ call.out.direction_confidence_score = 10
        /\ call.out.overall_predictability_score = 10
        /\ call.out.confidence.n = 0
        /\ call.out.prediction.direction = "SIDEWAYS"
        /\ FEq(call.out.prediction.magnitude_low, Frac(1, 2))
        /\ FEq(call.out.prediction.magnitude_high, Frac(3, 2))
        /\ call.out.prediction.timing_days = 1
        /\ FEq(call.out.prediction.win_rate, Frac(1, 2))

C19_Witness ==
    /\ call.fn = "score_stock"
    /\ call.arg.events = <<>>
    /\ call.arg.correlations = <<>>
    /\ call.out.sample_size = 0
    /\ call.out.overall_predictability_score = 10

\* C20: _score_pattern of a list of correlation records, each with a win rate
\* and a sample size, is the clamped sum of the win-rate, sample and
\* consistency scores, the means being taken over all the records; with no
\* records it is 10.
C20_PatternOverAllRecords ==
    (/\ call.fn = "_score_pattern"
     /\ \A i \in DOMAIN call.arg :
           call.arg[i].has_win_rate /\ call.arg[i].has_sample_size) =>
        FEq(call.out, ScorePatternOverAll(call.arg))

(***************************************************************************)
(* The rate limiter (rate_limiter.py).  Strings are sequences of tokens,   *)
(* so that the key built from a client id and an endpoint is a             *)
(* concatenation, as in the code.  Redis mode is not modelled: the calls   *)
(* below are the ones made with rate limiting off or with no Redis client. *)
(***************************************************************************)
RATE_LIMITS ==
    [auth |-> 30, search |-> 100, data |-> 200, prediction |-> 150,
     watchlist |-> 100, default |-> 100]

WINDOW == 3600

MaxTicks == 1

MaxStoredCount == 32

\* "bulk" is a tier the table does not have.
Tiers == {"auth", "default", "bulk"}

ClientIds == {<<"user", ":", "1">>, <<"ip", ":", "10.0.0.1">>}

Endpoints == {<<"/api/auth">>}

ClockSteps == {WINDOW, WINDOW + 1}

LimitOf(tier) ==
    IF tier \in DOMAIN RATE_LIMITS THEN RATE_LIMITS[tier] ELSE RATE_LIMITS["default"]

RateLimitKey(client_id, endpoint) ==
    <<"rate_limit", ":">> \o client_id \o <<":">> \o endpoint

NewRecord(now, window) ==
    [count |-> 0, window_start |-> now, expiration |-> now + window]

ExpiredFrom(now, record) == now >= record.expiration

Expired(now, record) == now > record.expiration

\* _check_memory_limit: the store after the call and the returned triple.
CheckMemoryLimit(memory_store, key, limit, window, now) ==
    LET found   == IF key \in DOMAIN memory_store
                   THEN memory_store[key] ELSE NewRecord(now, window)
        current == IF Expired(now, found) THEN NewRecord(now, window) ELSE found
        record  == [current EXCEPT !.count = @ + 1]
    IN  [memory_store |-> [k \in DOMAIN memory_store \cup {key} |->
                              IF k = key THEN record ELSE memory_store[k]],
         out |-> [is_limited |-> record.count > limit,
                  remaining  |-> IF limit - record.count > 0
                                 THEN limit - record.count ELSE 0,
                  reset_at   |-> record.expiration]]

\* is_rate_limited, for a limiter that has no Redis client.
IsRateLimited(l, client_id, endpoint, tier, now) ==
    IF ~l.enabled
    THEN [limiter |-> l, out |-> [is_limited |-> FALSE, remaining |-> -1, reset_at |-> 0]]
    ELSE LET r == CheckMemoryLimit(l.memory_store, RateLimitKey(client_id, endpoint),
                                   LimitOf(tier), WINDOW, now)
         IN  [limiter |-> [l EXCEPT !.memory_store = r.memory_store], out |-> r.out]

\* reset_client_limit, for a limiter that has no Redis client.
ResetClientLimit(l, client_id, endpoint) ==
    IF ~l.enabled
    THEN l
    ELSE LET key == RateLimitKey(client_id, endpoint)
         IN  [l EXCEPT !.memory_store = [k \in DOMAIN @ \ {key} |-> @[k]]]

StoredCount(memory_store) ==
    LET RECURSIVE Total(_)
        Total(ks) == IF ks = {} THEN 0
                     ELSE LET k == CHOOSE x \in ks : TRUE
                          IN  memory_store[k].count + Total(ks \ {k})
    IN  Total(DOMAIN memory_store)

LimiterFrame ==
    UNCHANGED <<events, corr, scores, cache, pending, today, calls, queue, results, run, reader>>

CallIsRateLimited(client_id, endpoint, tier) ==
    /\ call = NoCall
    /\ limiter.redis_client = Nil
    /\ StoredCount(limiter.memory_store) < MaxStoredCount
    /\ LET r == IsRateLimited(limiter, client_id, endpoint, tier, clock)
       IN  /\ limiter' = r.limiter
           /\ call' = [fn  |-> "is_rate_limited",
                       arg |-> [key |-> RateLimitKey(client_id, endpoint), tier |-> tier,
                                now |-> clock, before |-> limiter],
                       out |-> r.out]
    /\ UNCHANGED clock
    /\ LimiterFrame

CallResetClientLimit(client_id, endpoint) ==
    /\ call = NoCall
    /\ limiter.redis_client = Nil
    /\ limiter' = ResetClientLimit(limiter, client_id, endpoint)
    /\ call' = [fn  |-> "reset_client_limit",
                arg |-> [key |-> RateLimitKey(client_id, endpoint), now |-> clock,
                         before |-> limiter],
                out |-> Nil]
    /\ UNCHANGED clock
    /\ LimiterFrame

\* Time passes between two calls.
ClockTick(step) ==
    /\ call = NoCall
    /\ clock < MaxTicks * WINDOW
    /\ clock' = clock + step
    /\ UNCHANGED <<limiter, call>>
    /\ LimiterFrame

ReturnLimiterCall ==
    /\ call # NoCall
    /\ call' = NoCall
    /\ UNCHANGED <<limiter, clock>>
    /\ LimiterFrame

\* A limiter as constructed by default (rate limiting off), or one put into
\* the in-memory mode as the tests do: enabled, with no Redis client.
InitLimiter ==
    /\ events = [e \in Events |-> NoEvent]
    /\ corr = {}
    /\ scores = <<>>
    /\ cache = [k \in CacheKeys |-> DefaultResponse]
    /\ pending = NoPending
    /\ today = 1
    /\ calls = 0
    /\ queue = <<>>
    /\ results = [s \in Stocks |-> NoResult]
    /\ run = Idle
    /\ reader = [pc |-> "idle", key |-> <<"predictability", 1>>, val |-> NoResponse,
                 hit |-> FALSE, fresh |-> TRUE, invalidated |-> FALSE]
    /\ call = NoCall
    /\ limiter \in {NewRateLimiter(FALSE), NewRateLimiter(TRUE)}
    /\ clock = 0

NextLimiter ==
    \/ \E client_id \in ClientIds, endpoint \in Endpoints, tier \in Tiers :
          CallIsRateLimited(client_id, endpoint, tier)
    \/ \E client_id \in ClientIds, endpoint \in Endpoints :
          CallResetClientLimit(client_id, endpoint)
    \/ \E step \in ClockSteps : ClockTick(step)
    \/ ReturnLimiterCall

SpecLimiter == InitLimiter /\ [][NextLimiter]_vars

(***************************************************************************)
(* Properties of the rate limiter.                                         *)
(***************************************************************************)

InMemoryMode(l) == l.enabled /\ l.redis_client = Nil

\* The number of this call among the calls for its key in the running
\* window: one more than the calls counted so far unless the key has no
\* record or its window has expired.
CallNumber ==
    LET before == call.arg.before.memory_store
        key    == call.arg.key
    IN  IF key \in DOMAIN before /\ ~(call.arg.now > before[key].expiration)
        THEN before[key].count + 1
        ELSE 1

OtherKeysUntouched ==
    LET before == call.arg.before.memory_store
    IN  /\ DOMAIN limiter.memory_store \ {call.arg.key} = DOMAIN before \ {call.arg.key}
        /\ \A k \in DOMAIN before \ {call.arg.key} : limiter.memory_store[k] = before[k]

\* C21: in the in-memory mode the k-th call of is_rate_limited for a key
\* within one window is limited exactly when k exceeds the tier's limit and
\* reports remaining = max(0, limit - k); the first call after the window's
\* expiration is not limited and reports limit - 1; a call leaves the other
\* keys' records alone, and reset_client_limit removes the key's record.
C21_MemoryLimit ==
    /\ (call.fn = "is_rate_limited" /\ InMemoryMode(call.arg.before)) =>
          LET limit == LimitOf(call.arg.tier)
              k     == CallNumber
          IN  /\ call.out.is_limited = (k > limit)
              /\ call.out.remaining = (IF limit - k > 0 THEN limit - k ELSE 0)
              /\ limiter.memory_store[call.arg.key].count = k
              /\ (call.arg.key \in DOMAIN call.arg.before.memory_store /\
                  call.arg.now > call.arg.before.memory_store[call.arg.key].expiration) =>
                    (~call.out.is_limited /\ call.out.remaining = limit - 1)
              /\ OtherKeysUntouched
    /\ (call.fn = "reset_client_limit" /\ InMemoryMode(call.arg.before)) =>
          /\ call.arg.key \notin DOMAIN limiter.memory_store
          /\ OtherKeysUntouched

\* The 31st call of a window in the auth tier, with another key recorded.
C21_Witness ==
    /\ call.fn = "is_rate_limited"
    /\ InMemoryMode(call.arg.before)
    /\ call.arg.tier = "auth"
    /\ CallNumber = 31
    /\ call.out.is_limited
    /\ call.out.remaining = 0
    /\ DOMAIN limiter.memory_store # {call.arg.key}

(***************************************************************************)
(* Properties of the correlator's sampling and aggregation.                *)
(***************************************************************************)

\* C22: the overall win rate is the sum of the windows' wins divided by the
\* sum of the windows' sample sizes, and 0 when there are no samples.
C22_OverallWinRate ==
    call.fn = "_calculate_overall_win_rate" =>
        LET wins  == SumSeq([i \in DOMAIN call.arg |-> call.arg[i].win_count])
            total == SumSeq([i \in DOMAIN call.arg |-> call.arg[i].total_count])
        IN  IF total = 0
            THEN FEq(call.out, FZero)
            ELSE FEq(call.out, Frac(wins, total))

\* The day offsets whose distance from the event, in hours, lies in the
\* window's half-open range: 0 for same-day, 1 for next-day, 2..4 for lagged.
OffsetsInRange(w) ==
    {k \in 0..(LookAheadDays - 1) : 24 * k >= w.start_hours /\ 24 * k < w.end_hours}

\* The event has a price on its date, and a price observation within the
\* window's range.
ObservedInRange(event, prices, w) ==
    /\ Truthy(PriceOn(prices, event.event_date))
    /\ \E k \in OffsetsInRange(w) : Truthy(PriceOn(prices, event.event_date + k))

\* C23: each window samples, for each event with a price on its date, the
\* first observation whose offset lies in the window's half-open range; an
\* event adds a sample to a window exactly when it has such an observation,
\* so that the next-day and lagged windows never sample the event-date
\* observation itself.
C23_SampledInRange ==
    (/\ call.fn = "find_correlations"
     /\ call.arg.events # <<>>
     /\ \E d \in Days : call.arg.prices[d].row) =>
        /\ ~call.out.raised
        /\ \A i \in DOMAIN WINDOWS :
              call.out.windows[i].sample_size =
                  Cardinality({j \in DOMAIN call.arg.events :
                      ObservedInRange(call.arg.events[j], call.arg.prices, WINDOWS[i])})

\* The realized direction of the move from the event-date price to the
\* price the window samples for the event.
RealizedDirection(event, prices, w) ==
    LET p0 == PriceOn(prices, event.event_date).close_price
        pw == PriceOn(prices, event.event_date + FirstOffset(event, prices, w)).close_price
    IN  IF (pw - p0) * 200 > p0 THEN "UP"
        ELSE IF (pw - p0) * 200 < 0 - p0 THEN "DOWN"
        ELSE "FLAT"

\* The direction the event's sentiment (in tenths) implies, None counting as 0.
ImpliedDirection(event) ==
    IF event.has_sentiment /\ event.sentiment_score > 3 THEN "UP"
    ELSE IF event.has_sentiment /\ event.sentiment_score < 0 - 3 THEN "DOWN"
    ELSE "FLAT"

\* The events the window samples: a price on the event date and a window
\* price within the look-ahead.
SampledEvents(evs, prices, w) ==
    {j \in DOMAIN evs :
        /\ Truthy(PriceOn(prices, evs[j].event_date))
        /\ FirstOffset(evs[j], prices, w) < LookAheadDays}

\* C28: in each window win_rate = wins / sample_size, where the wins are the
\* samples whose sentiment-implied direction equals the realized direction.
C28_WinRate ==
    (/\ call.fn = "find_correlations"
     /\ call.arg.events # <<>>
     /\ \E d \in Days : call.arg.prices[d].row) =>
        /\ ~call.out.raised
        /\ \A i \in DOMAIN WINDOWS :
              LET sampled == SampledEvents(call.arg.events, call.arg.prices, WINDOWS[i])
                  wins == {j \in sampled :
                              ImpliedDirection(call.arg.events[j]) =
                                  RealizedDirection(call.arg.events[j], call.arg.prices,
                                                    WINDOWS[i])}
              IN  /\ call.out.windows[i].sample_size = Cardinality(sampled)
                  /\ sampled # {} =>
                        FEq(call.out.windows[i].win_rate,
                            Round3(Frac(Cardinality(wins), Cardinality(sampled))))

\* The sample size a result reports for a window; a result without windows
\* (no events, no prices) reports none.
WindowSampleSize(result, i) ==
    IF result.windows = <<>> THEN 0 ELSE result.windows[i].sample_size

\* C30: for fixed events and prices the sample sizes of the calls filtered by
\* each category add up, window by window, to the sample size of the
\* unfiltered call.
C30_CategoriesPartitionSamples ==
    call.fn = "batch_analyze_categories" =>
        LET pooled == FindCorrelationsFor(call.arg.events, call.arg.prices, Nil)
        IN  /\ ~pooled.raised
            /\ \A c \in DOMAIN call.out : ~call.out[c].raised
            /\ \A i \in DOMAIN WINDOWS :
                  SumSeq([c \in DOMAIN call.out |-> WindowSampleSize(call.out[c], i)])
                      = WindowSampleSize(pooled, i)

(***************************************************************************)
(* Properties of the prediction.                                           *)
(***************************************************************************)

\* The sentiment scores of the events of the last 7 days that have one.
RecentSentiments(evs) ==
    LET Recent(e) == e.days_old <= 7 /\ e.has_sentiment
    IN  Collect(evs, Recent, SentimentOf)

\* C24: the predicted direction is UP if the mean sentiment score of the
\* events of the last 7 days that have a score, scores of 0.0 included, is
\* above 0.3, DOWN if it is below -0.3, and SIDEWAYS otherwise or when there
\* is no such event.
C24_DirectionFromMeanSentiment ==
    call.fn = "score_stock" =>
        LET sentiments == RecentSentiments(call.arg.events)
        IN  call.out.prediction.direction =
                (IF sentiments = <<>> THEN "SIDEWAYS"
                 ELSE IF FLess(Frac(3, 10), FMean(sentiments)) THEN "UP"
                 ELSE IF FLess(FMean(sentiments), Frac(0 - 3, 10)) THEN "DOWN"
                 ELSE "SIDEWAYS")

\* C25: the predicted win rate is the mean of the win rates the records
\* carry and the predicted timing the median of the days_to_move they
\* carry, whether or not a record carries a price change; a default is used
\* only for a quantity no record carries.
C25_WinRateAndTimingFromRecords ==
    call.fn = "score_stock" =>
        LET CarriesWinRate(c) == c.has_win_rate
            CarriesDays(c) == c.has_days
            DaysToMove(c) == Frac(c.days_to_move, 1)
            win_rates == Collect(call.arg.correlations, CarriesWinRate, WinRateOf)
            timings == Collect(call.arg.correlations, CarriesDays, DaysToMove)
        IN  /\ FEq(call.out.prediction.win_rate,
                   IF win_rates = <<>> THEN Frac(1, 2) ELSE Round3(FMean(win_rates)))
            /\ call.out.prediction.timing_days =
                   (IF timings = <<>> THEN 1 ELSE FInt(Percentile(timings, 50)))

(***************************************************************************)
(* Properties of the categorizer's primary and secondary categories.       *)
(***************************************************************************)

\* The confidences categorize_event computes for the call's input: none for
\* an input it takes for empty.
ComputedScores ==
    IF IsEmptyInput(call.arg.headline, call.arg.content)
    THEN <<>>
    ELSE CategoryScores(KeywordCounts(call.arg.headline, call.arg.content),
                        TotalTextLength(call.arg.headline, call.arg.content))

\* C26: without return_all the third value never contains the primary
\* category and holds exactly the other categories whose confidence is at
\* least half the primary's, also when no keyword matches.
C26_SecondariesExcludePrimary ==
    (call.fn = "categorize_event" /\ ~call.arg.return_all) =>
        /\ call.out.category \notin DOMAIN call.out.scores
        /\ DOMAIN call.out.scores =
              {c \in DOMAIN ComputedScores \ {call.out.category} :
                  FLeq(FMul(call.out.confidence, Frac(1, 2)), ComputedScores[c])}
        /\ \A c \in DOMAIN call.out.scores \cap DOMAIN ComputedScores :
              FEq(call.out.scores[c], ComputedScores[c])

\* C27: the primary category has the greatest confidence among the
\* categories with a keyword match, and among the categories of exactly that
\* confidence it is the one declared first in the category table.
C27_PrimaryIsFirstBest ==
    (call.fn = "categorize_event" /\ DOMAIN ComputedScores # {}) =>
        /\ call.out.category \in DOMAIN ComputedScores
        /\ FEq(call.out.confidence, ComputedScores[call.out.category])
        /\ \A c \in DOMAIN ComputedScores :
              FLeq(ComputedScores[c], call.out.confidence)
        /\ \A i, j \in 1..NumCategories :
              (/\ Categories[j] = call.out.category
               /\ Categories[i] \in DOMAIN ComputedScores
               /\ FEq(ComputedScores[Categories[i]], call.out.confidence)) => j <= i

\* 'merger' is a keyword of technical and of merger: both reach 1.0 and
\* technical, declared first, is the primary.
C27_Witness ==
    /\ call.fn = "categorize_event"
    /\ call.arg.headline.kind = "words"
    /\ call.arg.headline.words = <<"merger">>
    /\ call.arg.content.kind = "empty"
    /\ DOMAIN ComputedScores = {"technical", "merger"}
    /\ FEq(ComputedScores["technical"], ComputedScores["merger"])
    /\ call.out.category = "technical"


\* The markers the stages of the current run have left, by stage.
StageRan(markers) == \E i \in DOMAIN run.trace : run.trace[i] \in markers

\* A stage whose flag is false has left no mark: nothing of it was executed,
\* the session holds no row of its table, no cache key was deleted and its
\* field of the result is as analyze_stock initialised it.
SkippedStagesLeaveNothing ==
    AnalyzeRun =>
        /\ ~run.ue => (~StageRan(EventsMarkers) /\ pending.ev = NoPending.ev
                        /\ run.events_analyzed = 0)
        /\ ~run.uc => (~StageRan(CorrelationsMarkers) /\ pending.corr = NoPending.corr
                        /\ run.correlations = {})
        /\ ~run.up => (~StageRan(PredictabilityMarkers) /\ pending.score = NoPending.score
                        /\ run.predictability = NoScoreData /\ run.deleted = {})

\* A run with a single flag set always enters the stage of that flag, so a
\* stage that is entered whatever the other two flags are is entered in every
\* run that has its flag set.
EveryRequestedStageRan ==
    (AnalyzeRun /\ run.pc \in {"finish", "failed"}) =>
        /\ run.ue => StageRan(EventsMarkers)
        /\ run.uc => StageRan(CorrelationsMarkers)
        /\ run.up => StageRan(PredictabilityMarkers)

\* C29 (as claimed): in analyze_stock a stage whose flag is false is not
\* executed, changes no row of its table, deletes no cache key and leaves its
\* field of the result at its initial value; and whether a stage runs is
\* decided by its own flag alone, so a finished run has entered exactly the
\* stages whose flags are set.
C29_FlagsGateStagesIndependently ==
    /\ SkippedStagesLeaveNothing
    /\ EveryRequestedStageRan

====
